---- MODULE Spec2Model ----
(***************************************************************************)
(* prsqlite: the B-tree cursor (src/src/cursor.rs) over table and index    *)
(* trees, and the connection's read/write transactions (src/src/lib.rs).   *)
(*                                                                         *)
(* Spec           the cursor: one BtreeCursor on one tree of the pager.    *)
(* ConnSpec       the connection: ref_count and its transactions.          *)
(* ExecSpec       InsertStatement::execute in its write transaction.       *)
(* InsertSpec     inserts into a table of one page.                        *)
(* PayloadSpec    BtreePayload::load.                                      *)
(* ViewSpec       the buffer views of the pages held while insert runs.    *)
(* EmptySpec      the cursor on an empty tree.                             *)
(* SeekSpec       table_move_to, then move_next.                           *)
(* IndexSeekSpec  index_move_to, then move_next.                           *)
(* ChainSpec      BtreePayload::load over overflow chains of any shape.    *)
(* RowsSpec       SelectStatement::query and Rows::next_row, whole table.  *)
(***************************************************************************)
EXTENDS Integers, Sequences, FiniteSets, TLC

(* ---------------------------- bounds ----------------------------------- *)
\* rowids of the table trees are drawn from 1..MaxKey
MaxKey == 4
\* an interior page of a generated tree has 1..MaxCells cells
MaxCells == 2
\* generated trees have 1..MaxDepth page levels
MaxDepth == 3
\* usable size of a page, in bytes
PageSize == 36
\* the index trees hold records among the first MaxRec index records
MaxRec == 7
\* number of successful insert() calls in one behaviour
MaxInserts == 1
\* move_next is not called once an idx_cell on the path has reached this
MaxIdxCell == 7
\* number of read transactions started and not yet dropped
MaxReads == 3
\* number of page mutations made through the pager in one behaviour
MaxMutations == 3
\* rowids given to insert() on the one-page table are -MaxAbsKey..MaxAbsKey
MaxAbsKey == 2
\* length of the longest payload given to insert() on the one-page table
MaxPayloadLen == 10
\* successful insert() calls on the one-page table
MaxInsertRows == 4
\* payload_size of the payloads load() is called on
MaxPayloadSize == 5
\* payload bytes on one overflow page (usable_size - 4 of the file)
OverflowPageBytes == 2
\* records of one InsertStatement
MaxRecords == 2
\* InsertStatement::execute calls that commit in one behaviour
MaxExecutes == 1

(* ------------------------- Option<T> ----------------------------------- *)
None == <<>>
Some(v) == <<v>>

(* ------------------------- page layout --------------------------------- *)
IsTable(page_type) == page_type \in {"TableInterior", "TableLeaf"}
IsIndex(page_type) == page_type \in {"IndexInterior", "IndexLeaf"}
IsLeafType(page_type) == page_type \in {"TableLeaf", "IndexLeaf"}

\* 8 bytes for a leaf page header, 12 for an interior one
HeaderSize(page_type) == IF IsLeafType(page_type) THEN 8 ELSE 12

\* header_offset is 100 on page 1, else 0
HeaderOffset(pid) == IF pid = 1 THEN 100 ELSE 0

cell_pointer_offset(pid, i, header_size) == HeaderOffset(pid) + header_size + 2 * i

\* number of bytes put_varint writes for the value v
VarintLen(v) ==
  IF v < 128 THEN 1
  ELSE IF v < 16384 THEN 2
  ELSE IF v < 2097152 THEN 3
  ELSE IF v < 268435456 THEN 4
  ELSE 9

\* size of the cell a page of the given type stores for (key, payload)
CellSize(page_type, key, payload) ==
  IF page_type = "TableLeaf" THEN VarintLen(Len(payload)) + VarintLen(key) + Len(payload)
  ELSE IF page_type = "TableInterior" THEN 4 + VarintLen(key)
  ELSE IF page_type = "IndexLeaf" THEN VarintLen(Len(payload)) + Len(payload)
  ELSE 4 + VarintLen(Len(payload)) + Len(payload)

RECURSIVE CellsSize(_, _)
CellsSize(page_type, cells) ==
  IF cells = <<>> THEN 0
  ELSE CellSize(page_type, Head(cells).key, Head(cells).payload)
         + CellsSize(page_type, Tail(cells))

\* a cell; the fields a page type does not store are 0 / <<>>
Cell(left, key, payload) == [left |-> left, key |-> key, payload |-> payload]

\* a page without freeblocks: its cells are packed at the end of the page
MkPage(pid, page_type, cells, right) ==
  [page_type |-> page_type,
   n_cells |-> Len(cells),
   cells |-> cells,
   right_page_id |-> right,
   cell_content_area_offset |-> PageSize - CellsSize(page_type, cells),
   first_freeblock_offset |-> 0,
   fragmented_free_bytes |-> 0]

\* the cell pointer array ends at or before the cell content area
PageFits(page_type, cells) ==
  HeaderSize(page_type) + 2 * Len(cells) + CellsSize(page_type, cells) <= PageSize

(* ------------------------- record comparison --------------------------- *)
\* lexicographic comparison of the key values with the first Len(keys)
\* columns of the record
RECURSIVE compare_record(_, _)
compare_record(keys, record) ==
  IF keys = <<>> THEN "Equal"
  ELSE IF record = <<>> THEN "Greater"
  ELSE IF Head(keys) < Head(record) THEN "Less"
  ELSE IF Head(keys) > Head(record) THEN "Greater"
  ELSE compare_record(Tail(keys), Tail(record))

(* ------------------------- well-formed trees --------------------------- *)
\* Trees are generated as nested values and then laid out on pages.
\*   leaf:      [leaf |-> TRUE,  cells |-> <<Cell>>]
\*   interior:  [leaf |-> FALSE, cells |-> <<[left |-> tree, key, payload]>>, right |-> tree]

RECURSIVE SortedSeq(_)
SortedSeq(S) ==
  IF S = {} THEN <<>>
  ELSE LET m == CHOOSE x \in S : \A y \in S : x <= y
       IN <<m>> \o SortedSeq(S \ {m})

\* payload of the row the generated table stores for rowid k
RowPayload(k) == <<2, 8 + k>>

RECURSIVE RowCells(_)
RowCells(keys) ==
  IF keys = <<>> THEN <<>>
  ELSE <<Cell(0, Head(keys), RowPayload(Head(keys)))>> \o RowCells(Tail(keys))

RECURSIVE TableTrees(_, _, _)
RECURSIVE TableChildren(_, _, _, _)
\* table trees of depth d below the root, all rowids in lo..hi, no empty page
TableTrees(d, lo, hi) ==
  IF d = 1
  THEN { [leaf |-> TRUE, cells |-> RowCells(SortedSeq(S))] :
           S \in { T \in SUBSET (lo..hi) :
                     T # {} /\ PageFits("TableLeaf", RowCells(SortedSeq(T))) } }
  ELSE UNION { { [leaf |-> FALSE, cells |-> ch.cells, right |-> ch.right] :
                   ch \in { x \in TableChildren(d, lo, hi, n) :
                              PageFits("TableInterior", x.cells) } } :
               n \in 1..MaxCells }
\* n cells and the right child: every rowid below cell i is <= its key and
\* greater than the key of cell i-1; the right child holds greater rowids
TableChildren(d, lo, hi, n) ==
  IF n = 0
  THEN { [cells |-> <<>>, right |-> t] : t \in TableTrees(d - 1, lo, hi) }
  ELSE UNION { { [cells |-> <<[left |-> t, key |-> k, payload |-> <<>>]>> \o rest.cells,
                  right |-> rest.right] :
                   t \in TableTrees(d - 1, lo, k),
                   rest \in TableChildren(d, k + 1, hi, n - 1) } :
               k \in lo..(hi - 1) }

\* the index records, in ascending order
\* (records are <<column value, rowid>>; a column value occurs in two records)
IndexRecords == [i \in 1..MaxRec |-> <<(i + 1) \div 2, i>>]

RECURSIVE RecordCells(_)
RecordCells(recs) ==
  IF recs = <<>> THEN <<>>
  ELSE <<Cell(0, 0, Head(recs))>> \o RecordCells(Tail(recs))

RECURSIVE IndexTrees(_, _)
RECURSIVE IndexChildren(_, _, _)
\* index trees of depth d holding exactly the records of the ascending
\* sequence recs, no empty page
IndexTrees(d, recs) ==
  IF d = 1
  THEN IF recs # <<>> /\ PageFits("IndexLeaf", RecordCells(recs))
       THEN { [leaf |-> TRUE, cells |-> RecordCells(recs)] }
       ELSE {}
  ELSE UNION { { [leaf |-> FALSE, cells |-> ch.cells, right |-> ch.right] :
                   ch \in { x \in IndexChildren(d, recs, n) :
                              PageFits("IndexInterior", x.cells) } } :
               n \in 1..MaxCells }
IndexChildren(d, recs, n) ==
  IF n = 0
  THEN { [cells |-> <<>>, right |-> t] : t \in IndexTrees(d - 1, recs) }
  ELSE UNION { { [cells |-> <<[left |-> t, key |-> 0, payload |-> recs[j]]>> \o rest.cells,
                  right |-> rest.right] :
                   t \in IndexTrees(d - 1, SubSeq(recs, 1, j - 1)),
                   rest \in IndexChildren(d, SubSeq(recs, j + 1, Len(recs)), n - 1) } :
               j \in 2..(Len(recs) - 1) }

RECURSIVE SelectRecs(_, _)
\* the subsequence of IndexRecords at the positions in S
SelectRecs(S, i) ==
  IF i > Len(IndexRecords) THEN <<>>
  ELSE (IF i \in S THEN <<IndexRecords[i]>> ELSE <<>>) \o SelectRecs(S, i + 1)

EmptyLeaf == [leaf |-> TRUE, cells |-> <<>>]

WellFormedTableTrees ==
  {EmptyLeaf} \cup UNION { TableTrees(d, 1, MaxKey) : d \in 1..MaxDepth }

WellFormedIndexTrees ==
  {EmptyLeaf} \cup
  UNION { UNION { IndexTrees(d, SelectRecs(S, 1)) : d \in 1..MaxDepth } :
          S \in SUBSET (1..Len(IndexRecords)) }

RECURSIVE TreeSize(_)
RECURSIVE ChildrenSize(_)
\* number of pages of a tree
TreeSize(t) ==
  IF t.leaf THEN 1 ELSE 1 + ChildrenSize(t.cells) + TreeSize(t.right)
ChildrenSize(cells) ==
  IF cells = <<>> THEN 0 ELSE TreeSize(Head(cells).left) + ChildrenSize(Tail(cells))

RECURSIVE Layout(_, _, _)
RECURSIVE LayoutCells(_, _, _)
\* the pages of tree t of the given kind, its root on page pid and its
\* other pages numbered after it
Layout(kind, t, pid) ==
  IF t.leaf
  THEN (pid :> MkPage(pid, IF kind = "table" THEN "TableLeaf" ELSE "IndexLeaf", t.cells, 0))
  ELSE LET lc == LayoutCells(kind, t.cells, pid + 1)
           rpid == pid + 1 + ChildrenSize(t.cells)
       IN (pid :> MkPage(pid, IF kind = "table" THEN "TableInterior" ELSE "IndexInterior",
                         lc.cells, rpid))
          @@ lc.pages @@ Layout(kind, t.right, rpid)
LayoutCells(kind, cells, pid) ==
  IF cells = <<>> THEN [cells |-> <<>>, pages |-> <<>>]
  ELSE LET c == Head(cells)
           rest == LayoutCells(kind, Tail(cells), pid + TreeSize(c.left))
       IN [cells |-> <<Cell(pid, c.key, c.payload)>> \o rest.cells,
           pages |-> Layout(kind, c.left, pid) @@ rest.pages]

(* ------------------------------ state ---------------------------------- *)
VARIABLES
  pages,          \* the pager: page id -> page (header fields and cells in pointer order)
  current_page,   \* BtreeCursor.current_page: CursorPage
  parent_pages,   \* BtreeCursor.parent_pages: sequence of CursorPage, root first
  initialized,    \* BtreeCursor.initialized
  panicked,       \* an assert! or todo!() of the cursor has fired
  last_op,        \* the last cursor call: [op, arg, res], res = <<"Ok", value>> or <<"Err">>
  scan,           \* a forward traversal is running: move_to_first, then only move_next
  yielded,        \* what the get_* read returned before each move_next of the traversal
  n_inserts,      \* number of successful insert() calls
  inserted,       \* the <<rowid, payload>> pairs of the successful insert() calls
  ref_count,      \* Connection.ref_count
  n_reads,        \* number of live ReadTransaction values
  n_writes,       \* number of live WriteTransaction values
  dirty,          \* pager: number of page mutations buffered since the last commit or abort
  durable,        \* pager: number of page mutations written by a commit
  file_size_changed, \* pager.is_file_size_changed()
  last_conn,      \* the last connection call: what it was, the state before it, how it ended
  btree_payload,  \* a BtreePayload: payload_size, the local bytes, the overflow pages' bytes
  loaded,         \* the last load() on it: offset, buf.len(), how it ended, the bytes in
                  \* buf, the overflow pages read
  read_views,     \* pager: page id -> number of read buffer views of the page that are held
  last_upgrade,   \* the last insert(): the buffer views while it ran
  query_rows,     \* the Rows of a query: is_first_row, completed (open: query() has returned it)
  last_row        \* the last next_row() on it: how it ended, the rowid of the row returned

cursor_vars == <<pages, current_page, parent_pages, initialized, panicked, last_op,
                 scan, yielded, n_inserts, inserted>>
conn_vars == <<ref_count, n_reads, n_writes, dirty, durable, file_size_changed, last_conn>>
payload_vars == <<btree_payload, loaded>>
view_vars == <<read_views, last_upgrade>>
rows_vars == <<query_rows, last_row>>
vars == <<cursor_vars, conn_vars, payload_vars, view_vars, rows_vars>>

\* the page the cursor is created on
RootPageId == 2

(* ------------------------------ cursor --------------------------------- *)
\* CursorPage::new
NewCursorPage(pg, pid) ==
  [mem |-> pid,
   idx_cell |-> 0,
   n_cells |-> pg[pid].n_cells,
   page_type |-> pg[pid].page_type,
   is_leaf |-> IsLeafType(pg[pid].page_type)]

\* the cursor as one value
Cursor == [current_page |-> current_page, parent_pages |-> parent_pages,
           initialized |-> initialized]

\* results of a cursor call: the cursor after it, how it ended, what it returned
Ok(c, v) == [c |-> c, st |-> "ok", val |-> v]
Err(c) == [c |-> c, st |-> "err", val |-> None]
Panic(c) == [c |-> c, st |-> "panic", val |-> None]

\* TableCellKeyParser::get_cell_key, IndexCellKeyParser::get_cell_key
CellAt(pg, pid, i) == pg[pid].cells[i + 1]

parse_btree_interior_cell_page_id(pg, pid, i) == CellAt(pg, pid, i).left

\* (mutant: the stack is emptied without truncate(1): the page on top of
\* it becomes the current page)
move_to_root_TopOfStack(c) ==
  IF c.parent_pages # <<>>
  THEN [c EXCEPT !.current_page = c.parent_pages[Len(c.parent_pages)], !.parent_pages = <<>>]
  ELSE c

move_to_root(c) ==
  IF c.parent_pages # <<>>
  THEN [c EXCEPT !.current_page = c.parent_pages[1], !.parent_pages = <<>>]
  ELSE c

move_to_child(pg, c, page_id) ==
  [c EXCEPT !.current_page = NewCursorPage(pg, page_id),
            !.parent_pages = Append(c.parent_pages, c.current_page)]

\* the cursor after back_to_parent returned true
back_to_parent(c) ==
  [c EXCEPT !.current_page = c.parent_pages[Len(c.parent_pages)],
            !.parent_pages = SubSeq(c.parent_pages, 1, Len(c.parent_pages) - 1)]

SetIdx(c, i) == [c EXCEPT !.current_page.idx_cell = i]

\* the child the search descends to from cell position i_min
NextPageId(pg, c, i_min) ==
  IF i_min = c.current_page.n_cells
  THEN pg[c.current_page.mem].right_page_id
  ELSE parse_btree_interior_cell_page_id(pg, c.current_page.mem, c.current_page.idx_cell)

RECURSIVE TableSearch(_, _, _, _, _, _)
\* (mutant: a cell key greater than the key is not remembered)
TableSearch_Forget(pg, pid, key, i_min, i_max, max_cell_key) ==
  IF ~(i_min < i_max) THEN [i_min |-> i_min, max_cell_key |-> max_cell_key]
  ELSE LET i_mid == (i_min + i_max) \div 2
           cell_key == CellAt(pg, pid, i_mid).key
       IN IF key < cell_key
          THEN TableSearch(pg, pid, key, i_min, i_mid, max_cell_key)
          ELSE IF key = cell_key
          THEN [i_min |-> i_mid, max_cell_key |-> Some(cell_key)]
          ELSE TableSearch(pg, pid, key, i_mid + 1, i_max, max_cell_key)

\* the binary search of table_move_to on one page
TableSearch(pg, pid, key, i_min, i_max, max_cell_key) ==
  IF ~(i_min < i_max) THEN [i_min |-> i_min, max_cell_key |-> max_cell_key]
  ELSE LET i_mid == (i_min + i_max) \div 2
           cell_key == CellAt(pg, pid, i_mid).key
       IN IF key < cell_key
          THEN TableSearch(pg, pid, key, i_min, i_mid, Some(cell_key))
          ELSE IF key = cell_key
          THEN [i_min |-> i_mid, max_cell_key |-> Some(cell_key)]
          ELSE TableSearch(pg, pid, key, i_mid + 1, i_max, max_cell_key)

RECURSIVE TableMoveToLoop(_, _, _)
\* (mutant: idx_cell of an interior page is not set before the descent)
TableMoveToLoop_NoIdx(pg, c, key) ==
  IF ~IsTable(c.current_page.page_type) THEN Err(c)
  ELSE LET s == TableSearch(pg, c.current_page.mem, key, 0, c.current_page.n_cells, None)
           c1 == SetIdx(c, s.i_min)
       IN IF c1.current_page.is_leaf
          THEN Ok([c1 EXCEPT !.initialized = TRUE], s.max_cell_key)
          ELSE TableMoveToLoop(pg, move_to_child(pg, c, NextPageId(pg, c1, s.i_min)), key)

\* the page loop of table_move_to
TableMoveToLoop(pg, c, key) ==
  IF ~IsTable(c.current_page.page_type) THEN Err(c)
  ELSE LET s == TableSearch(pg, c.current_page.mem, key, 0, c.current_page.n_cells, None)
           c1 == SetIdx(c, s.i_min)
       IN IF c1.current_page.is_leaf
          THEN Ok([c1 EXCEPT !.initialized = TRUE], s.max_cell_key)
          ELSE TableMoveToLoop(pg, move_to_child(pg, c1, NextPageId(pg, c1, s.i_min)), key)

table_move_to(pg, c, key) == TableMoveToLoop(pg, move_to_root(c), key)

RECURSIVE IndexSearch(_, _, _, _, _)
\* (mutant: the search goes on to the first cell that is not less than the
\* keys instead of stopping at an equal cell)
IndexSearch_LowerBound(pg, pid, keys, i_min, i_max) ==
  IF ~(i_min < i_max) THEN [found |-> FALSE, i |-> i_min]
  ELSE LET i_mid == (i_min + i_max) \div 2
           ord == compare_record(keys, CellAt(pg, pid, i_mid).payload)
       IN IF ord = "Less" THEN IndexSearch(pg, pid, keys, i_min, i_mid)
          ELSE IF ord = "Equal" THEN IndexSearch(pg, pid, keys, i_min, i_mid)
          ELSE IndexSearch(pg, pid, keys, i_mid + 1, i_max)

\* the binary search of index_move_to on one page
IndexSearch(pg, pid, keys, i_min, i_max) ==
  IF ~(i_min < i_max) THEN [found |-> FALSE, i |-> i_min]
  ELSE LET i_mid == (i_min + i_max) \div 2
           ord == compare_record(keys, CellAt(pg, pid, i_mid).payload)
       IN IF ord = "Less" THEN IndexSearch(pg, pid, keys, i_min, i_mid)
          ELSE IF ord = "Equal" THEN [found |-> TRUE, i |-> i_mid]
          ELSE IndexSearch(pg, pid, keys, i_mid + 1, i_max)

RECURSIVE IndexMoveToAscend(_)
\* (mutant: the cursor stays past the last cell of the leaf)
IndexMoveToAscend_Stay(c) == c

\* (mutant: without a parent left idx_cell stays at n_cells)
IndexMoveToAscend_NoSentinel(c) ==
  IF c.parent_pages # <<>>
  THEN LET c1 == back_to_parent(c)
       IN IF c1.current_page.idx_cell = c1.current_page.n_cells
          THEN IndexMoveToAscend(c1)
          ELSE c1
  ELSE c

\* index_move_to past the last cell of a leaf: back to the parent cell
IndexMoveToAscend(c) ==
  IF c.parent_pages # <<>>
  THEN LET c1 == back_to_parent(c)
       IN IF c1.current_page.idx_cell = c1.current_page.n_cells
          THEN IndexMoveToAscend(c1)
          ELSE c1
  ELSE SetIdx(c, c.current_page.idx_cell + 1)

RECURSIVE IndexMoveToLoop(_, _, _)
\* the page loop of index_move_to
IndexMoveToLoop(pg, c, keys) ==
  IF ~IsIndex(c.current_page.page_type) THEN Err(c)
  ELSE LET s == IndexSearch(pg, c.current_page.mem, keys, 0, c.current_page.n_cells)
           c1 == SetIdx(c, s.i)
       IN IF s.found THEN Ok([c1 EXCEPT !.initialized = TRUE], None)
          ELSE IF c1.current_page.is_leaf
          THEN LET c2 == IF c1.current_page.idx_cell = c1.current_page.n_cells
                         THEN IndexMoveToAscend(c1) ELSE c1
               IN Ok([c2 EXCEPT !.initialized = TRUE], None)
          ELSE IndexMoveToLoop(pg, move_to_child(pg, c1, NextPageId(pg, c1, s.i)), keys)

index_move_to(pg, c, keys) == IndexMoveToLoop(pg, move_to_root(c), keys)

RECURSIVE DescendFirstCells(_, _)
\* the loop of move_to_left_most: follow cell 0 down to a leaf
DescendFirstCells(pg, c) ==
  IF c.current_page.is_leaf THEN Ok(c, TRUE)
  ELSE IF pg[c.current_page.mem].n_cells = 0 THEN Err(c)
  ELSE DescendFirstCells(pg,
         move_to_child(pg, c, parse_btree_interior_cell_page_id(pg, c.current_page.mem, 0)))

\* val: the bool move_to_left_most returns
move_to_left_most(pg, c) ==
  IF c.current_page.is_leaf THEN Panic(c)
  ELSE IF c.current_page.idx_cell > c.current_page.n_cells THEN Ok(c, FALSE)
  ELSE LET page_id == IF c.current_page.idx_cell < c.current_page.n_cells
                      THEN parse_btree_interior_cell_page_id(pg, c.current_page.mem,
                                                             c.current_page.idx_cell)
                      ELSE pg[c.current_page.mem].right_page_id
       IN DescendFirstCells(pg, SetIdx(move_to_child(pg, c, page_id), 0))

move_to_first(pg, c) ==
  LET c1 == SetIdx(move_to_root(c), 0)
  IN IF ~c1.current_page.is_leaf
     THEN LET r == move_to_left_most(pg, c1)
          IN IF r.st = "ok" THEN Ok([r.c EXCEPT !.initialized = TRUE], None) ELSE r
     ELSE Ok([c1 EXCEPT !.initialized = TRUE], None)

RECURSIVE DescendRightMost(_, _)
\* the loop of move_to_last: follow right_page_id down to a leaf
DescendRightMost(pg, c) ==
  IF c.current_page.is_leaf THEN c
  ELSE DescendRightMost(pg, move_to_child(pg, c, pg[c.current_page.mem].right_page_id))

move_to_last(pg, c) ==
  LET c1 == move_to_root(c)
      c2 == IF c1.current_page.n_cells = 0
            THEN SetIdx(c1, 0)
            ELSE LET leaf == DescendRightMost(pg, c1)
                 IN SetIdx(leaf, leaf.current_page.n_cells - 1)
  IN Ok([c2 EXCEPT !.initialized = TRUE], None)

RECURSIVE MoveNextTableAscend(_, _)
\* (mutant: the parent's idx_cell is not advanced)
MoveNextTableAscend_NoAdvance(pg, c) ==
  IF c.parent_pages = <<>> THEN Ok(SetIdx(c, c.current_page.idx_cell + 1), None)
  ELSE LET c1 == back_to_parent(c)
           r == move_to_left_most(pg, c1)
       IN IF r.st # "ok" THEN r
          ELSE IF r.val THEN Ok(r.c, None)
          ELSE MoveNextTableAscend(pg, r.c)

\* move_next on an exhausted table leaf: up, one cell on, down to the left-most leaf
MoveNextTableAscend(pg, c) ==
  IF c.parent_pages = <<>> THEN Ok(SetIdx(c, c.current_page.idx_cell + 1), None)
  ELSE LET c1 == back_to_parent(c)
           c2 == SetIdx(c1, c1.current_page.idx_cell + 1)
           r == move_to_left_most(pg, c2)
       IN IF r.st # "ok" THEN r
          ELSE IF r.val THEN Ok(r.c, None)
          ELSE MoveNextTableAscend(pg, r.c)

RECURSIVE MoveNextIndexAscend(_)
\* (mutant: the parent's cell is skipped)
MoveNextIndexAscend_SkipCell(c) ==
  IF c.parent_pages # <<>>
  THEN LET c1 == back_to_parent(c)
       IN IF c1.current_page.idx_cell = c1.current_page.n_cells
          THEN MoveNextIndexAscend(c1)
          ELSE SetIdx(c1, c1.current_page.idx_cell + 1)
  ELSE SetIdx(c, c.current_page.idx_cell + 1)

\* move_next on an exhausted index leaf: up to the first parent cell not yet yielded
MoveNextIndexAscend(c) ==
  IF c.parent_pages # <<>>
  THEN LET c1 == back_to_parent(c)
       IN IF c1.current_page.idx_cell = c1.current_page.n_cells
          THEN MoveNextIndexAscend(c1)
          ELSE c1
  ELSE SetIdx(c, c.current_page.idx_cell + 1)

\* (mutant: a root page without cells is not taken as completed)
move_next_NoEmptyCheck(pg, c) ==
  IF ~c.initialized THEN Err(c)
  ELSE IF c.parent_pages = <<>>
          /\ c.current_page.idx_cell = c.current_page.n_cells + 1
  THEN Ok(c, None)
  ELSE LET c1 == SetIdx(c, c.current_page.idx_cell + 1)
           cp == c1.current_page
       IN IF cp.is_leaf /\ cp.idx_cell < cp.n_cells THEN Ok(c1, None)
          ELSE IF IsTable(cp.page_type)
          THEN IF ~cp.is_leaf \/ cp.idx_cell # cp.n_cells THEN Panic(c1)
               ELSE MoveNextTableAscend(pg, c1)
          ELSE IF IsIndex(cp.page_type)
          THEN IF ~cp.is_leaf /\ cp.idx_cell <= cp.n_cells
               THEN LET r == move_to_left_most(pg, c1)
                    IN IF r.st = "ok" /\ ~r.val THEN Panic(r.c)
                       ELSE IF r.st = "ok" THEN Ok(r.c, None) ELSE r
               ELSE IF ~(cp.is_leaf /\ cp.idx_cell = cp.n_cells) THEN Panic(c1)
               ELSE Ok(MoveNextIndexAscend(c1), None)
          ELSE Err(c1)

move_next(pg, c) ==
  IF ~c.initialized THEN Err(c)
  ELSE IF c.parent_pages = <<>>
          /\ (c.current_page.idx_cell = c.current_page.n_cells + 1
              \/ c.current_page.n_cells = 0)
  THEN Ok(c, None)
  ELSE LET c1 == SetIdx(c, c.current_page.idx_cell + 1)
           cp == c1.current_page
       IN IF cp.is_leaf /\ cp.idx_cell < cp.n_cells THEN Ok(c1, None)
          ELSE IF IsTable(cp.page_type)
          THEN IF ~cp.is_leaf \/ cp.idx_cell # cp.n_cells THEN Panic(c1)
               ELSE MoveNextTableAscend(pg, c1)
          ELSE IF IsIndex(cp.page_type)
          THEN IF ~cp.is_leaf /\ cp.idx_cell <= cp.n_cells
               THEN LET r == move_to_left_most(pg, c1)
                    IN IF r.st = "ok" /\ ~r.val THEN Panic(r.c)
                       ELSE IF r.st = "ok" THEN Ok(r.c, None) ELSE r
               ELSE IF ~(cp.is_leaf /\ cp.idx_cell = cp.n_cells) THEN Panic(c1)
               ELSE Ok(MoveNextIndexAscend(c1), None)
          ELSE Err(c1)

\* (mutant: the initialized flag is not looked at)
get_table_key_NoInitCheck(pg, c) ==
  IF ~IsTable(c.current_page.page_type) THEN Err(c)
  ELSE IF c.current_page.idx_cell >= c.current_page.n_cells THEN Ok(c, None)
  ELSE IF ~c.current_page.is_leaf THEN Panic(c)
  ELSE Ok(c, Some(CellAt(pg, c.current_page.mem, c.current_page.idx_cell).key))

get_table_key(pg, c) ==
  IF ~c.initialized THEN Err(c)
  ELSE IF ~IsTable(c.current_page.page_type) THEN Err(c)
  ELSE IF c.current_page.idx_cell >= c.current_page.n_cells THEN Ok(c, None)
  ELSE IF ~c.current_page.is_leaf THEN Panic(c)
  ELSE Ok(c, Some(CellAt(pg, c.current_page.mem, c.current_page.idx_cell).key))

\* val: Some(<<key, payload>>)
get_table_payload(pg, c) ==
  IF ~c.initialized THEN Err(c)
  ELSE IF ~IsTable(c.current_page.page_type) THEN Err(c)
  ELSE IF c.current_page.idx_cell >= c.current_page.n_cells THEN Ok(c, None)
  ELSE IF ~c.current_page.is_leaf THEN Panic(c)
  ELSE LET cell == CellAt(pg, c.current_page.mem, c.current_page.idx_cell)
       IN Ok(c, Some(<<cell.key, cell.payload>>))

\* (mutant: the end of the page is tested before the page type)
get_index_payload_EndFirst(pg, c) ==
  IF ~c.initialized THEN Err(c)
  ELSE IF c.current_page.idx_cell >= c.current_page.n_cells THEN Ok(c, None)
  ELSE IF ~IsIndex(c.current_page.page_type) THEN Err(c)
  ELSE Ok(c, Some(CellAt(pg, c.current_page.mem, c.current_page.idx_cell).payload))

get_index_payload(pg, c) ==
  IF ~c.initialized THEN Err(c)
  ELSE IF ~IsIndex(c.current_page.page_type) THEN Err(c)
  ELSE IF c.current_page.idx_cell >= c.current_page.n_cells THEN Ok(c, None)
  ELSE Ok(c, Some(CellAt(pg, c.current_page.mem, c.current_page.idx_cell).payload))

\* the rowid as the unsigned value the cell header stores
i64_to_u64(v) == IF v >= 0 THEN 2 * v ELSE -2 * v - 1

\* the rowid a reader of the cell gets back from the stored value
u64_to_i64(u) == IF u % 2 = 0 THEN u \div 2 ELSE -((u + 1) \div 2)

InsertAt(seq, i, x) == SubSeq(seq, 1, i - 1) \o <<x>> \o SubSeq(seq, i, Len(seq))

\* (mutant: the new cell pointer is always appended)
WriteCellPointer_Append(cells, n_cells, idx_cell, current_cell_key, cell) ==
  Append(SubSeq(cells, 1, n_cells), cell)

\* (mutant: the pointers from idx_cell + 1 on are shifted)
WriteCellPointer_AfterCell(cells, n_cells, idx_cell, current_cell_key, cell) ==
  IF current_cell_key # None
  THEN InsertAt(SubSeq(cells, 1, n_cells), idx_cell + 2, cell)
  ELSE Append(SubSeq(cells, 1, n_cells), cell)

\* the cell pointer array after insert has written the new cell's pointer:
\* between the cells at idx_cell when the search met a greater key, else at
\* the tail
WriteCellPointer(cells, n_cells, idx_cell, current_cell_key, cell) ==
  IF current_cell_key # None
  THEN InsertAt(SubSeq(cells, 1, n_cells), idx_cell + 1, cell)
  ELSE Append(SubSeq(cells, 1, n_cells), cell)

\* (insert with one step changed: an existing rowid is accepted when
\* update, the free space has to hold only room bytes besides the cell, the
\* cell content area is lowered by the cell size less short bytes)
InsertVariant(pg, c, key, payload, update, room, short) ==
  LET r == table_move_to(pg, c, key)
      no_write(res) == [pg |-> pg, c |-> res.c, st |-> res.st, val |-> None]
  IN IF r.st # "ok" THEN no_write(r)
     ELSE LET cur == r.c.current_page
              page == pg[cur.mem]
              cell_header_size == VarintLen(Len(payload)) + VarintLen(i64_to_u64(key))
              cell_size == cell_header_size + Len(payload)
              header_size == HeaderSize(page.page_type)
              unallocated_space_offset == cell_pointer_offset(cur.mem, cur.n_cells, header_size)
              free_size == page.cell_content_area_offset - unallocated_space_offset
              offset == page.cell_content_area_offset - (cell_size - short)
              n_cells == cur.n_cells + 1
              cell == Cell(0, u64_to_i64(i64_to_u64(key)), payload)
          IN IF r.val = Some(key) /\ ~update THEN no_write(Panic(r.c))
             ELSE IF page.first_freeblock_offset # 0 \/ page.fragmented_free_bytes # 0
             THEN no_write(Panic(r.c))
             ELSE IF free_size < cell_size + room THEN no_write(Panic(r.c))
             ELSE IF ~(offset < 65535) \/ ~(offset > 0) THEN no_write(Panic(r.c))
             ELSE [pg |-> [pg EXCEPT ![cur.mem] =
                             [page EXCEPT !.cell_content_area_offset = offset,
                                          !.n_cells = n_cells,
                                          !.cells = WriteCellPointer(page.cells, cur.n_cells,
                                                                     cur.idx_cell, r.val, cell)]],
                   c |-> [r.c EXCEPT !.current_page.n_cells = n_cells],
                   st |-> "ok",
                   val |-> None]

\* (mutant: a rowid that is already there gets a second cell)
insert_Existing(pg, c, key, payload) == InsertVariant(pg, c, key, payload, TRUE, 2, 0)

\* (mutant: the two bytes of the new cell pointer are not counted)
insert_NoPointerRoom(pg, c, key, payload) == InsertVariant(pg, c, key, payload, FALSE, 0, 0)

\* (mutant: the space of the rowid varint is not allocated)
insert_ShortCell(pg, c, key, payload) == InsertVariant(pg, c, key, payload, FALSE, 2, 1)

\* (mutant: the cursor is left one cell past the new cell)
insert_PastCell(pg, c, key, payload) ==
  LET r == InsertVariant(pg, c, key, payload, FALSE, 2, 0)
  IN IF r.st = "ok" THEN [r EXCEPT !.c.current_page.idx_cell = @ + 1] ELSE r

\* (mutant: the new cell_content_area_offset is also written to the header
\* of the root page)
insert_HeaderOnRoot(pg, c, key, payload) ==
  LET r == InsertVariant(pg, c, key, payload, FALSE, 2, 0)
  IN IF r.st = "ok"
     THEN [r EXCEPT !.pg[RootPageId].cell_content_area_offset =
                      r.pg[r.c.current_page.mem].cell_content_area_offset]
     ELSE r

\* (mutant: the cached n_cells of the current page is not raised)
insert_StaleNCells(pg, c, key, payload) ==
  LET r == InsertVariant(pg, c, key, payload, FALSE, 2, 0)
  IN IF r.st = "ok" THEN [r EXCEPT !.c.current_page.n_cells = @ - 1] ELSE r

\* insert: [pg |-> the pages after the call, c, st, val]
insert(pg, c, key, payload) ==
  LET r == table_move_to(pg, c, key)
      no_write(res) == [pg |-> pg, c |-> res.c, st |-> res.st, val |-> None]
  IN IF r.st # "ok" THEN no_write(r)
     ELSE LET cur == r.c.current_page
              page == pg[cur.mem]
              cell_header_size == VarintLen(Len(payload)) + VarintLen(i64_to_u64(key))
              cell_size == cell_header_size + Len(payload)
              header_size == HeaderSize(page.page_type)
              unallocated_space_offset == cell_pointer_offset(cur.mem, cur.n_cells, header_size)
              free_size == page.cell_content_area_offset - unallocated_space_offset
              offset == page.cell_content_area_offset - cell_size
              n_cells == cur.n_cells + 1
              cell == Cell(0, u64_to_i64(i64_to_u64(key)), payload)
          IN IF r.val = Some(key) THEN no_write(Panic(r.c))
             ELSE IF page.first_freeblock_offset # 0 \/ page.fragmented_free_bytes # 0
             THEN no_write(Panic(r.c))
             ELSE IF free_size < cell_size + 2 THEN no_write(Panic(r.c))
             ELSE IF ~(offset < 65535) \/ ~(offset > 0) THEN no_write(Panic(r.c))
             ELSE [pg |-> [pg EXCEPT ![cur.mem] =
                             [page EXCEPT !.cell_content_area_offset = offset,
                                          !.n_cells = n_cells,
                                          !.cells = WriteCellPointer(page.cells, cur.n_cells,
                                                                     cur.idx_cell, r.val, cell)]],
                   c |-> [r.c EXCEPT !.current_page.n_cells = n_cells],
                   st |-> "ok",
                   val |-> None]

(* ------------------------------ reads ---------------------------------- *)
TreeIsTable == IsTable(pages[RootPageId].page_type)

\* the read of the tree's kind at the cursor: get_table_payload or get_index_payload
ReadAt(pg, c) ==
  IF IsTable(pg[RootPageId].page_type) THEN get_table_payload(pg, c)
  ELSE get_index_payload(pg, c)

Read == ReadAt(pages, Cursor)

(* ------------------------------ actions -------------------------------- *)
LastOp(op, arg, r) == [op |-> op, arg |-> arg, st |-> r.st, val |-> r.val]

\* the cursor variables after a call that ended as r
SetCursor(r) ==
  /\ current_page' = r.c.current_page
  /\ parent_pages' = r.c.parent_pages
  /\ initialized' = r.c.initialized
  /\ panicked' = (r.st = "panic")

\* the rowids the calls are tried with (on an index tree the rowid is never
\* read: one value)
TableKeys == IF TreeIsTable THEN 0..(MaxKey + 1) ELSE {0}

\* search keys of one column and of two: every record of IndexRecords (in
\* the tree or not) and every column value, with one below and one above
\* (on a table tree the keys are never read: one value)
SearchKeys ==
  IF TreeIsTable THEN { <<0>> }
  ELSE { <<col>> : col \in 0..((MaxRec + 1) \div 2 + 1) }
         \cup { IndexRecords[i] : i \in 1..MaxRec }

InsertPayloads == IF TreeIsTable THEN { <<7>>, <<8, 9>> } ELSE { <<7>> }

\* every idx_cell on the cursor's path
PathIdxCells ==
  {current_page.idx_cell} \cup { parent_pages[i].idx_cell : i \in 1..Len(parent_pages) }

MoveToFirst ==
  /\ ~panicked
  /\ LET r == move_to_first(pages, Cursor)
     IN /\ SetCursor(r)
        /\ last_op' = LastOp("move_to_first", <<>>, r)
        /\ scan' = (r.st = "ok")
        /\ yielded' = <<>>
  /\ UNCHANGED <<pages, n_inserts, inserted, conn_vars, payload_vars, view_vars, rows_vars>>

MoveToLast ==
  /\ ~panicked
  /\ LET r == move_to_last(pages, Cursor)
     IN /\ SetCursor(r)
        /\ last_op' = LastOp("move_to_last", <<>>, r)
  /\ scan' = FALSE
  /\ yielded' = <<>>
  /\ UNCHANGED <<pages, n_inserts, inserted, conn_vars, payload_vars, view_vars, rows_vars>>

TableMoveTo ==
  /\ ~panicked
  /\ \E key \in TableKeys :
       LET r == table_move_to(pages, Cursor, key)
       IN /\ SetCursor(r)
          /\ last_op' = LastOp("table_move_to", <<key>>, r)
  /\ scan' = FALSE
  /\ yielded' = <<>>
  /\ UNCHANGED <<pages, n_inserts, inserted, conn_vars, payload_vars, view_vars, rows_vars>>

IndexMoveTo ==
  /\ ~panicked
  /\ \E keys \in SearchKeys :
       LET r == index_move_to(pages, Cursor, keys)
       IN /\ SetCursor(r)
          /\ last_op' = LastOp("index_move_to", keys, r)
  /\ scan' = FALSE
  /\ yielded' = <<>>
  /\ UNCHANGED <<pages, n_inserts, inserted, conn_vars, payload_vars, view_vars, rows_vars>>

MoveNext ==
  /\ ~panicked
  /\ \A i \in PathIdxCells : i < MaxIdxCell
  /\ LET r == move_next(pages, Cursor)
         rd == Read
     IN /\ SetCursor(r)
        /\ last_op' = LastOp("move_next", <<>>, r)
        /\ scan' = (scan /\ r.st = "ok")
        /\ yielded' = IF scan /\ rd.st = "ok" /\ rd.val # None
                      THEN Append(yielded, [mem |-> current_page.mem, row |-> rd.val[1]])
                      ELSE yielded
  /\ UNCHANGED <<pages, n_inserts, inserted, conn_vars, payload_vars, view_vars, rows_vars>>

Insert ==
  /\ ~panicked
  /\ n_inserts < MaxInserts
  /\ \E key \in TableKeys, payload \in InsertPayloads :
       LET r == insert(pages, Cursor, key, payload)
       IN /\ SetCursor(r)
          /\ pages' = r.pg
          /\ last_op' = LastOp("insert", <<key, payload>>, r)
          /\ n_inserts' = IF r.st = "ok" THEN n_inserts + 1 ELSE n_inserts
          /\ inserted' = IF r.st = "ok" THEN inserted \cup { <<key, payload>> } ELSE inserted
  /\ scan' = FALSE
  /\ yielded' = <<>>
  /\ UNCHANGED <<conn_vars, payload_vars, view_vars, rows_vars>>

\* the connection after Connection::open
ConnIdle ==
  /\ ref_count = 0
  /\ n_reads = 0
  /\ n_writes = 0
  /\ dirty = 0
  /\ durable = 0
  /\ file_size_changed = FALSE
  /\ last_conn = [op |-> "open", ok |-> TRUE, ref_before |-> 0, reads_before |-> 0,
                  writes_before |-> 0, commit_ok |-> FALSE, abort_called |-> FALSE,
                  dirty_before |-> 0, durable_before |-> 0]

\* no payload has been read: the payload of a row without bytes, no load()
PayloadIdle ==
  /\ btree_payload = [payload_size |-> 0, local |-> <<>>, overflow |-> <<>>, loop_to |-> 0]
  /\ loaded = [op |-> "none", offset |-> 0, buf_len |-> 0, st |-> "ok", n |-> 0, buf |-> <<>>,
             read |-> 0]

\* no buffer view of a page is held
ViewIdle ==
  /\ read_views = [pid \in DOMAIN pages |-> 0]
  /\ last_upgrade = [reached |-> FALSE, ok |-> TRUE, readers |-> 0, overlap |-> FALSE]

\* no query has been made
RowsIdle ==
  /\ query_rows = [open |-> FALSE, is_first_row |-> TRUE, completed |-> FALSE]
  /\ last_row = [op |-> "none", st |-> "ok", val |-> None, after_none |-> FALSE]

Init ==
  /\ \E kind \in {"table", "index"} :
       \E tree \in (IF kind = "table" THEN WellFormedTableTrees ELSE WellFormedIndexTrees) :
         pages = Layout(kind, tree, RootPageId)
  /\ current_page = NewCursorPage(pages, RootPageId)
  /\ parent_pages = <<>>
  /\ initialized = FALSE
  /\ panicked = FALSE
  /\ last_op = [op |-> "new", arg |-> <<>>, st |-> "ok", val |-> None]
  /\ scan = FALSE
  /\ yielded = <<>>
  /\ n_inserts = 0
  /\ inserted = {}
  /\ ConnIdle
  /\ PayloadIdle
  /\ ViewIdle
  /\ RowsIdle

Next ==
  \/ MoveToFirst
  \/ MoveToLast
  \/ TableMoveTo
  \/ IndexMoveTo
  \/ MoveNext
  \/ Insert

Spec == Init /\ [][Next]_vars

(* ---------------------------- connection ------------------------------- *)
start_read(rc) ==
  IF rc >= 0 THEN [ok |-> TRUE, ref_count |-> rc + 1]
  ELSE [ok |-> FALSE, ref_count |-> rc]

\* (mutant: a write starts while reads are running)
start_write_WhileReading(rc) ==
  IF rc >= 0 THEN [ok |-> TRUE, ref_count |-> -1]
  ELSE [ok |-> FALSE, ref_count |-> rc]

start_write(rc) ==
  IF rc = 0 THEN [ok |-> TRUE, ref_count |-> -1]
  ELSE [ok |-> FALSE, ref_count |-> rc]

\* (mutant: the drop of a read transaction resets the counter)
ReadTransaction_drop_Reset(rc) == 0

ReadTransaction_drop(rc) == rc - 1

\* (mutant: do_commit is set before pager.commit() has returned)
WriteTransaction_commit_EarlyFlag(fail) ==
  [commit_ok |-> fail = "none", do_commit |-> fail \in {"none", "pager_commit"}]

\* WriteTransaction::commit; fail names the call that returns an error, if
\* any: whether pager.commit() succeeded, and do_commit when self is dropped
WriteTransaction_commit(fail) ==
  [commit_ok |-> fail = "none", do_commit |-> fail = "none"]

\* WriteTransaction::drop
WriteTransaction_drop(do_commit) ==
  [abort_called |-> ~do_commit, ref_count |-> 0]

\* the calls of commit that can return an error
CommitFailures ==
  IF file_size_changed THEN {"none", "get_page", "make_page_mut", "pager_commit"}
  ELSE {"none", "pager_commit"}

LastConn(op, ok, commit_ok, abort_called) ==
  [op |-> op, ok |-> ok, ref_before |-> ref_count, reads_before |-> n_reads,
   writes_before |-> n_writes, commit_ok |-> commit_ok, abort_called |-> abort_called,
   dirty_before |-> dirty, durable_before |-> durable]

StartRead ==
  /\ n_reads < MaxReads
  /\ LET r == start_read(ref_count)
     IN /\ ref_count' = r.ref_count
        /\ n_reads' = IF r.ok THEN n_reads + 1 ELSE n_reads
        /\ last_conn' = LastConn("start_read", r.ok, FALSE, FALSE)
  /\ UNCHANGED <<n_writes, dirty, durable, file_size_changed, cursor_vars, payload_vars, view_vars, rows_vars>>

DropReadTransaction ==
  /\ n_reads > 0
  /\ ref_count' = ReadTransaction_drop(ref_count)
  /\ n_reads' = n_reads - 1
  /\ last_conn' = LastConn("drop_read", TRUE, FALSE, FALSE)
  /\ UNCHANGED <<n_writes, dirty, durable, file_size_changed, cursor_vars, payload_vars, view_vars, rows_vars>>

StartWrite ==
  /\ LET r == start_write(ref_count)
     IN /\ ref_count' = r.ref_count
        /\ n_writes' = IF r.ok THEN n_writes + 1 ELSE n_writes
        /\ last_conn' = LastConn("start_write", r.ok, FALSE, FALSE)
  /\ UNCHANGED <<n_reads, dirty, durable, file_size_changed, cursor_vars, payload_vars, view_vars, rows_vars>>

\* a cursor of the write transaction changes a page through the pager
PagerWrite ==
  /\ n_writes > 0
  /\ dirty + durable < MaxMutations
  /\ dirty' = dirty + 1
  /\ \E grown \in BOOLEAN : file_size_changed' = (file_size_changed \/ grown)
  /\ last_conn' = LastConn("write", TRUE, FALSE, FALSE)
  /\ UNCHANGED <<ref_count, n_reads, n_writes, durable, cursor_vars, payload_vars, view_vars, rows_vars>>

\* the pager after the transaction has ended
EndWrite(op, commit_ok, d) ==
  /\ durable' = IF commit_ok THEN durable + dirty ELSE durable
  /\ dirty' = IF commit_ok \/ d.abort_called THEN 0 ELSE dirty
  /\ file_size_changed' = IF commit_ok \/ d.abort_called THEN FALSE ELSE file_size_changed
  /\ ref_count' = d.ref_count
  /\ n_writes' = n_writes - 1
  /\ last_conn' = LastConn(op, commit_ok, commit_ok, d.abort_called)
  /\ UNCHANGED <<n_reads, cursor_vars, payload_vars, view_vars, rows_vars>>

Commit ==
  /\ n_writes > 0
  /\ \E fail \in CommitFailures :
       LET c == WriteTransaction_commit(fail)
       IN EndWrite("commit", c.commit_ok, WriteTransaction_drop(c.do_commit))

\* the transaction is dropped without commit (an error return of execute)
DropWriteTransaction ==
  /\ n_writes > 0
  /\ EndWrite("drop_write", FALSE, WriteTransaction_drop(FALSE))

ConnInit ==
  /\ pages = Layout("table", EmptyLeaf, RootPageId)
  /\ current_page = NewCursorPage(pages, RootPageId)
  /\ parent_pages = <<>>
  /\ initialized = FALSE
  /\ panicked = FALSE
  /\ last_op = [op |-> "new", arg |-> <<>>, st |-> "ok", val |-> None]
  /\ scan = FALSE
  /\ yielded = <<>>
  /\ n_inserts = 0
  /\ inserted = {}
  /\ ConnIdle
  /\ PayloadIdle
  /\ ViewIdle
  /\ RowsIdle

ConnNext ==
  \/ StartRead
  \/ DropReadTransaction
  \/ StartWrite
  \/ PagerWrite
  \/ Commit
  \/ DropWriteTransaction

ConnSpec == ConnInit /\ [][ConnNext]_vars

(* ----------------------- InsertStatement::execute ----------------------- *)
\* BtreeCursor::new on the table's root page
NewCursor(pg) ==
  [current_page |-> NewCursorPage(pg, RootPageId), parent_pages |-> <<>>,
   initialized |-> FALSE]

\* the records of a statement: the rowid expression is absent ("auto"),
\* evaluates to an integer ("expr") or to a value that is no integer
\* ("mismatch")
InsertRecord(kind, rowid) == [kind |-> kind, rowid |-> rowid, payload |-> <<7>>]

InsertRecords ==
  { InsertRecord("auto", 0), InsertRecord("mismatch", 0) }
    \cup { InsertRecord("expr", k) : k \in 1..(MaxKey + 1) }

RECURSIVE StatementsOf(_)
\* the record lists of n records
StatementsOf(n) ==
  IF n = 0 THEN { <<>> }
  ELSE { Append(rs, r) : rs \in StatementsOf(n - 1), r \in InsertRecords }

Statements == UNION { StatementsOf(n) : n \in 1..MaxRecords }

\* MAX_ROWID, the largest value of the rowid type: rowids are the integers
\* up to it, and the rowid expressions of the records reach it
MAX_ROWID == MaxKey + 1

\* cursor.get_table_key()?.unwrap_or(0)
LastRowid(gk) == IF gk.val = None THEN 0 ELSE gk.val[1]

\* (mutant: the last rowid itself is taken)
AutoRowidKey_NoIncrement(gk) ==
  IF gk.st # "ok" THEN gk
  ELSE IF LastRowid(gk) = MAX_ROWID THEN Panic(gk.c)
  ELSE Ok(gk.c, LastRowid(gk))

\* the rowid of an "auto" record once get_table_key has returned gk:
\* todo!() at MAX_ROWID
AutoRowidKey(gk) ==
  IF gk.st # "ok" THEN gk
  ELSE IF LastRowid(gk) = MAX_ROWID THEN Panic(gk.c)
  ELSE Ok(gk.c, LastRowid(gk) + 1)

\* the rowid of an "auto" record once move_to_last has returned ml
AutoRowid(pg, ml) ==
  IF ml.st # "ok" THEN ml ELSE AutoRowidKey(get_table_key(pg, ml.c))

\* the rowid of a record: [c, st, val |-> the rowid]
RecordRowid(pg, c, record) ==
  IF record.kind = "mismatch" THEN [c |-> c, st |-> "DataTypeMismatch", val |-> None]
  ELSE IF record.kind = "expr" THEN Ok(c, record.rowid)
  ELSE AutoRowid(pg, move_to_last(pg, c))

\* the rowid conflict check on mv, the result of table_move_to(rowid), and
\* the insert: [pg, c, st, val]
CheckConflictAndInsert(pg, record, rowid, mv) ==
  IF mv.st # "ok" THEN [pg |-> pg, c |-> mv.c, st |-> mv.st, val |-> None]
  ELSE IF mv.val = Some(rowid)
  THEN [pg |-> pg, c |-> mv.c, st |-> "UniqueConstraintViolation", val |-> None]
  ELSE insert(pg, mv.c, rowid, record.payload)

\* one pass of the loop body, rid being the record's rowid
ExecuteRecord(pg, record, rid) ==
  IF rid.st # "ok" THEN [pg |-> pg, c |-> rid.c, st |-> rid.st, val |-> None]
  ELSE CheckConflictAndInsert(pg, record, rid.val, table_move_to(pg, rid.c, rid.val))

RECURSIVE ExecuteRecords(_, _, _, _, _)
\* the loop once record i has ended as r
ExecuteRecordsStep(records, i, n, r) ==
  IF r.st # "ok" THEN [pg |-> r.pg, st |-> r.st, n |-> n]
  ELSE ExecuteRecords(r.pg, r.c, records, i + 1, n + 1)

\* the loop of execute over self.records (a table without indexes); pg are
\* the pages as the write transaction sees them
ExecuteRecords(pg, c, records, i, n) ==
  IF i > Len(records) THEN [pg |-> pg, st |-> "ok", n |-> n]
  ELSE ExecuteRecordsStep(records, i, n,
         ExecuteRecord(pg, records[i], RecordRowid(pg, c, records[i])))

\* the pages of the file once the write transaction is gone: the
\* transaction's pages after pager.commit(), the pages as they were before
\* it after pager.abort()
PagerAfter(before, written, commit_ok, abort_called) ==
  IF commit_ok THEN written
  ELSE IF abort_called THEN before
  ELSE written

\* what execute leaves once write_txn has ended with commit result c
ExecuteResult(pg, r, c, d) ==
  [pg |-> PagerAfter(pg, r.pg, c.commit_ok, d.abort_called),
   ref_count |-> d.ref_count,
   st |-> IF r.st # "ok" THEN r.st ELSE IF c.commit_ok THEN "ok" ELSE "err",
   stage |-> IF r.st # "ok" THEN "record" ELSE "commit",
   n |-> r.n]

\* (mutant: an error return of the loop leaves the transaction marked as
\* committed)
EndExecute_Committed(pg, r, fail) ==
  IF r.st = "ok"
  THEN ExecuteResult(pg, r, WriteTransaction_commit(fail),
                     WriteTransaction_drop(WriteTransaction_commit(fail).do_commit))
  ELSE ExecuteResult(pg, r, [commit_ok |-> FALSE, do_commit |-> TRUE],
                     WriteTransaction_drop(TRUE))

\* the end of execute, the loop having ended as r: write_txn.commit()? after
\* the last record, write_txn dropped with do_commit false at an error
\* return (and when a panic unwinds)
EndExecute(pg, r, fail) ==
  IF r.st = "ok"
  THEN ExecuteResult(pg, r, WriteTransaction_commit(fail),
                     WriteTransaction_drop(WriteTransaction_commit(fail).do_commit))
  ELSE ExecuteResult(pg, r, [commit_ok |-> FALSE, do_commit |-> FALSE],
                     WriteTransaction_drop(FALSE))

\* execute once start_write has returned w
ExecuteInTxn(pg, w, records, fail) ==
  IF ~w.ok
  THEN [pg |-> pg, ref_count |-> w.ref_count, st |-> "err", stage |-> "start_write", n |-> 0]
  ELSE EndExecute(pg, ExecuteRecords(pg, NewCursor(pg), records, 1, 0), fail)

\* InsertStatement::execute; fail names the call of commit that returns an
\* error, if any
InsertStatement_execute(pg, rc, records, fail) ==
  ExecuteInTxn(pg, start_write(rc), records, fail)

\* the variables after execute has ended as e
SetExecuted(records, e) ==
  /\ pages' = e.pg
  /\ ref_count' = e.ref_count
  /\ last_op' = [op |-> "execute", arg |-> [i \in 1..Len(records) |-> records[i].kind],
                 st |-> e.st,
                 val |-> <<e.stage, e.n>>]
  /\ last_conn' = LastConn("execute", e.st = "ok", e.st = "ok",
                           e.st # "ok" /\ e.stage # "start_write")
  /\ n_inserts' = IF e.st = "ok" THEN n_inserts + 1 ELSE n_inserts

Execute ==
  /\ n_inserts < MaxExecutes
  /\ \E records \in Statements, fail \in {"none", "pager_commit"} :
       SetExecuted(records, InsertStatement_execute(pages, ref_count, records, fail))
  /\ UNCHANGED <<current_page, parent_pages, initialized, panicked, scan, yielded, inserted,
                 n_reads, n_writes, dirty, durable, file_size_changed, payload_vars, view_vars, rows_vars>>

ExecInit ==
  /\ \E tree \in WellFormedTableTrees : pages = Layout("table", tree, RootPageId)
  /\ current_page = NewCursorPage(pages, RootPageId)
  /\ parent_pages = <<>>
  /\ initialized = FALSE
  /\ panicked = FALSE
  /\ last_op = [op |-> "new", arg |-> <<>>, st |-> "ok", val |-> None]
  /\ scan = FALSE
  /\ yielded = <<>>
  /\ n_inserts = 0
  /\ inserted = {}
  /\ ConnIdle
  /\ PayloadIdle
  /\ ViewIdle
  /\ RowsIdle

ExecNext ==
  \/ Execute
  \/ StartRead
  \/ DropReadTransaction

ExecSpec == ExecInit /\ [][ExecNext]_vars

(* ------------------- Rows of a SELECT without lookup -------------------- *)
\* Rows::move_next of a statement without rowid and without index: the
\* cursor after it, is_first_row after it, how it ended, the bool returned
Rows_move_next(pg, c, rws) ==
  IF rws.is_first_row
  THEN [c |-> c, is_first_row |-> FALSE, st |-> "ok", val |-> TRUE]
  ELSE LET r == move_next(pg, c)
       IN [c |-> r.c, is_first_row |-> FALSE, st |-> r.st, val |-> r.st = "ok"]

\* next_row once get_table_payload has returned rd: None leaves completed
\* as it is; the row is read a second time from the same cursor after the
\* loop (no filter)
NextRowRead(c, rws, rd) ==
  [c |-> c, rows |-> rws, st |-> rd.st,
   val |-> IF rd.st = "ok" /\ rd.val # None THEN Some(rd.val[1][1]) ELSE None]

\* next_row once Rows::move_next has ended as m
NextRowMoved(pg, rws, m) ==
  IF m.st = "panic"
  THEN [c |-> m.c, rows |-> [rws EXCEPT !.is_first_row = m.is_first_row], st |-> "panic",
        val |-> None]
  ELSE IF m.st = "err" \/ ~m.val
  THEN [c |-> m.c, rows |-> [rws EXCEPT !.is_first_row = m.is_first_row, !.completed = TRUE],
        st |-> m.st, val |-> None]
  ELSE NextRowRead(m.c, [rws EXCEPT !.is_first_row = m.is_first_row],
                   get_table_payload(pg, m.c))

\* Rows::next_row: [c, rows, st, val |-> the rowid of the row returned]
next_row(pg, c, rws) ==
  IF rws.completed THEN [c |-> c, rows |-> rws, st |-> "ok", val |-> None]
  ELSE NextRowMoved(pg, rws, Rows_move_next(pg, c, rws))

\* SelectStatement::query once start_read has returned sr and move_to_first
\* on the new cursor r: the Rows is returned when both succeeded
SetQueried(sr, r) ==
  /\ sr.ok /\ r.st = "ok"
  /\ SetCursor(r)
  /\ ref_count' = sr.ref_count
  /\ n_reads' = n_reads + 1
  /\ query_rows' = [open |-> TRUE, is_first_row |-> TRUE, completed |-> FALSE]
  /\ last_row' = [op |-> "query", st |-> "ok", val |-> None, after_none |-> FALSE]
  /\ last_op' = LastOp("move_to_first", <<>>, r)
  /\ last_conn' = LastConn("start_read", TRUE, FALSE, FALSE)

Query ==
  /\ ~query_rows.open
  /\ SetQueried(start_read(ref_count), move_to_first(pages, NewCursor(pages)))
  /\ UNCHANGED <<pages, scan, yielded, n_inserts, inserted, n_writes, dirty, durable,
                 file_size_changed, payload_vars, view_vars>>

\* the variables after next_row has ended as r
SetNextRow(r) ==
  /\ SetCursor(r)
  /\ query_rows' = r.rows
  /\ last_row' = [op |-> "next_row", st |-> r.st, val |-> r.val,
                  after_none |-> last_row.after_none
                                   \/ (last_row.op = "next_row" /\ last_row.st = "ok"
                                         /\ last_row.val = None)]
  /\ last_op' = LastOp("next_row", <<>>, r)

RowsNextRow ==
  /\ query_rows.open
  /\ ~panicked
  /\ SetNextRow(next_row(pages, Cursor, query_rows))
  /\ UNCHANGED <<pages, scan, yielded, n_inserts, inserted, conn_vars, payload_vars, view_vars>>

RowsInit ==
  /\ \E tree \in WellFormedTableTrees : pages = Layout("table", tree, RootPageId)
  /\ current_page = NewCursorPage(pages, RootPageId)
  /\ parent_pages = <<>>
  /\ initialized = FALSE
  /\ panicked = FALSE
  /\ last_op = [op |-> "new", arg |-> <<>>, st |-> "ok", val |-> None]
  /\ scan = FALSE
  /\ yielded = <<>>
  /\ n_inserts = 0
  /\ inserted = {}
  /\ ConnIdle
  /\ PayloadIdle
  /\ ViewIdle
  /\ RowsIdle

RowsNext ==
  \/ Query
  \/ RowsNextRow

RowsSpec == RowsInit /\ [][RowsNext]_vars

(* -------------------- table_move_to, then move_next --------------------- *)
\* table_move_to as the start of a traversal: when it returns Some, the
\* rows read before each move_next that follows are recorded
TableMoveToScan ==
  /\ ~panicked
  /\ \E key \in TableKeys :
       LET r == table_move_to(pages, Cursor, key)
       IN /\ SetCursor(r)
          /\ last_op' = LastOp("table_move_to", <<key>>, r)
          /\ scan' = (r.st = "ok" /\ r.val # None)
  /\ yielded' = <<>>
  /\ UNCHANGED <<pages, n_inserts, inserted, conn_vars, payload_vars, view_vars, rows_vars>>

SeekInit ==
  /\ \E tree \in WellFormedTableTrees : pages = Layout("table", tree, RootPageId)
  /\ current_page = NewCursorPage(pages, RootPageId)
  /\ parent_pages = <<>>
  /\ initialized = FALSE
  /\ panicked = FALSE
  /\ last_op = [op |-> "new", arg |-> <<>>, st |-> "ok", val |-> None]
  /\ scan = FALSE
  /\ yielded = <<>>
  /\ n_inserts = 0
  /\ inserted = {}
  /\ ConnIdle
  /\ PayloadIdle
  /\ ViewIdle
  /\ RowsIdle

SeekNext ==
  \/ TableMoveToScan
  \/ MoveNext

SeekSpec == SeekInit /\ [][SeekNext]_vars

(* -------------------- index_move_to, then move_next --------------------- *)
IndexSeekInit ==
  /\ \E tree \in WellFormedIndexTrees : pages = Layout("index", tree, RootPageId)
  /\ current_page = NewCursorPage(pages, RootPageId)
  /\ parent_pages = <<>>
  /\ initialized = FALSE
  /\ panicked = FALSE
  /\ last_op = [op |-> "new", arg |-> <<>>, st |-> "ok", val |-> None]
  /\ scan = FALSE
  /\ yielded = <<>>
  /\ n_inserts = 0
  /\ inserted = {}
  /\ ConnIdle
  /\ PayloadIdle
  /\ ViewIdle
  /\ RowsIdle

IndexSeekNext ==
  \/ IndexMoveTo
  \/ MoveNext

IndexSeekSpec == IndexSeekInit /\ [][IndexSeekNext]_vars

(* ------------------------ inserts into one page ------------------------- *)
InsertKeys == (-MaxAbsKey)..MaxAbsKey

RowPayloads == { <<7>>, <<8, 9>>, [i \in 1..MaxPayloadLen |-> i] }

\* the largest payload a table leaf cell keeps on its page
MaxLocalTableLeaf(usable_size) == usable_size - 35

\* the variables after insert(key, payload) has ended as r
SetInserted(key, payload, r) ==
  /\ SetCursor(r)
  /\ pages' = r.pg
  /\ last_op' = LastOp("insert", <<key, payload>>, r)
  /\ n_inserts' = IF r.st = "ok" THEN n_inserts + 1 ELSE n_inserts
  /\ inserted' = IF r.st = "ok" THEN inserted \cup { <<key, payload>> } ELSE inserted

InsertRow ==
  /\ ~panicked
  /\ n_inserts < MaxInsertRows
  /\ \E key \in InsertKeys, payload \in RowPayloads :
       SetInserted(key, payload, insert(pages, Cursor, key, payload))
  /\ UNCHANGED <<scan, yielded, conn_vars, payload_vars, view_vars, rows_vars>>

\* an empty table: its root page is a leaf without cells
InsertInit ==
  /\ pages = Layout("table", EmptyLeaf, RootPageId)
  /\ current_page = NewCursorPage(pages, RootPageId)
  /\ parent_pages = <<>>
  /\ initialized = FALSE
  /\ panicked = FALSE
  /\ last_op = [op |-> "new", arg |-> <<>>, st |-> "ok", val |-> None]
  /\ scan = FALSE
  /\ yielded = <<>>
  /\ n_inserts = 0
  /\ inserted = {}
  /\ ConnIdle
  /\ PayloadIdle
  /\ ViewIdle
  /\ RowsIdle

InsertNext == InsertRow

InsertSpec == InsertInit /\ [][InsertNext]_vars

(* --------------------------- BtreePayload ------------------------------- *)
Min(a, b) == IF a < b THEN a ELSE b

RECURSIVE Chunks(_, _)
\* the bytes seq as the payloads of a chain of overflow pages holding n
\* bytes each, the last one what is left
Chunks(seq, n) ==
  IF seq = <<>> THEN <<>>
  ELSE <<SubSeq(seq, 1, Min(n, Len(seq)))>> \o Chunks(SubSeq(seq, n + 1, Len(seq)), n)

\* the payload of size bytes 1, 2, .. of which local_len are on the page of
\* the cell; overflow are the payload bytes of the pages of the chain, in
\* chain order, and loop_to is where the next-page id of the last one leads:
\* 0 (no page), or the position in the chain of a page of it
MkPayload(size, local_len) ==
  [payload_size |-> size,
   local |-> [i \in 1..local_len |-> i],
   overflow |-> Chunks([i \in 1..(size - local_len) |-> local_len + i], OverflowPageBytes),
   loop_to |-> 0]

\* the payloads of cells: all bytes local, or a local part and overflow pages
Payloads ==
  { MkPayload(0, 0) }
    \cup UNION { { MkPayload(n, local_len) : local_len \in 1..n } : n \in 1..MaxPayloadSize }

\* BtreePayload::size
size(p) == p.payload_size

\* BtreePayload::buf
buf(p) == p.local

\* (mutant: the copy starts at the first byte of src)
CopyFrom_FromStart(src, cur, l) ==
  LET local_offset == 0
      n == Min(Len(src) - local_offset, l.room)
  IN [offset |-> l.offset + n,
      room |-> l.room - n,
      out |-> l.out \o SubSeq(src, local_offset + 1, local_offset + n)]

\* the state of load after a copy of the bytes of src from offset - cur on:
\* [offset, room (what is left of buf), out (the bytes written to buf)]
CopyFrom(src, cur, l) ==
  LET local_offset == l.offset - cur
      n == Min(Len(src) - local_offset, l.room)
  IN [offset |-> l.offset + n,
      room |-> l.room - n,
      out |-> l.out \o SubSeq(src, local_offset + 1, local_offset + n)]

\* OverflowPage::parse on the page at position i of the chain, cur bytes of
\* the payload lying before it: the page's share of the payload and the
\* position of the page its next-page id names (0: none)
OverflowPage_parse(p, i, cur) ==
  [payload |-> SubSeq(p.overflow[i], 1, Min(Len(p.overflow[i]), p.payload_size - cur)),
   next |-> IF i < Len(p.overflow) THEN i + 1 ELSE p.loop_to]

\* the first overflow page of the cell (0: none)
FirstOverflow(p) == IF p.overflow = <<>> THEN 0 ELSE 1

RECURSIVE LoadOverflow(_, _, _, _, _)
\* (mutant: cur is not moved past the overflow page read)
LoadOverflow_StuckCur(p, i, cur, l, n_pages) ==
  IF ~(l.room # 0 /\ cur < p.payload_size)
  THEN [st |-> "ok", n |-> Len(l.out), out |-> l.out, read |-> n_pages]
  ELSE IF i = 0 THEN [st |-> "err", n |-> 0, out |-> l.out, read |-> n_pages]
  ELSE LET parsed == OverflowPage_parse(p, i, cur)
       IN LoadOverflow(p, parsed.next, cur,
            IF l.offset < cur + Len(parsed.payload) THEN CopyFrom(parsed.payload, cur, l)
            ELSE l,
            n_pages + 1)

\* (mutant: the end of the chain is taken as the end of the payload)
LoadOverflow_EndIsOk(p, i, cur, l, n_pages) ==
  IF ~(l.room # 0 /\ cur < p.payload_size) \/ i = 0
  THEN [st |-> "ok", n |-> Len(l.out), out |-> l.out, read |-> n_pages]
  ELSE LET parsed == OverflowPage_parse(p, i, cur)
       IN LoadOverflow(p, parsed.next, cur + Len(parsed.payload),
            IF l.offset < cur + Len(parsed.payload) THEN CopyFrom(parsed.payload, cur, l)
            ELSE l,
            n_pages + 1)

\* the loop of load over the overflow pages, i being the page of the chain
\* that overflow names (0: none) and n_pages the pages read so far
LoadOverflow(p, i, cur, l, n_pages) ==
  IF ~(l.room # 0 /\ cur < p.payload_size)
  THEN [st |-> "ok", n |-> Len(l.out), out |-> l.out, read |-> n_pages]
  ELSE IF i = 0 THEN [st |-> "err", n |-> 0, out |-> l.out, read |-> n_pages]
  ELSE LET parsed == OverflowPage_parse(p, i, cur)
       IN LoadOverflow(p, parsed.next, cur + Len(parsed.payload),
            IF l.offset < cur + Len(parsed.payload) THEN CopyFrom(parsed.payload, cur, l)
            ELSE l,
            n_pages + 1)

\* the copy of the local bytes
LoadLocal(p, l) ==
  IF l.offset < Len(p.local) THEN CopyFrom(p.local, 0, l) ELSE l

\* (mutant: an offset past the payload is not refused)
load_NoUpperCheck(p, offset, buf_len) ==
  IF offset < 0 THEN [st |-> "err", n |-> 0, out |-> <<>>, read |-> 0]
  ELSE LoadOverflow(p, FirstOverflow(p), Len(p.local),
                    LoadLocal(p, [offset |-> offset, room |-> buf_len, out |-> <<>>]), 0)

\* BtreePayload::load: [st, n |-> the number returned, out |-> the bytes
\* written to the head of buf, read |-> the overflow pages read]
load(p, offset, buf_len) ==
  IF offset < 0 THEN [st |-> "err", n |-> 0, out |-> <<>>, read |-> 0]
  ELSE IF offset >= p.payload_size THEN [st |-> "err", n |-> 0, out |-> <<>>, read |-> 0]
  ELSE LoadOverflow(p, FirstOverflow(p), Len(p.local),
                    LoadLocal(p, [offset |-> offset, room |-> buf_len, out |-> <<>>]), 0)

\* buf after the call: the bytes written, then the zeros buf came with
SetLoaded(offset, buf_len, r) ==
  loaded' = [op |-> "load", offset |-> offset, buf_len |-> buf_len, st |-> r.st, n |-> r.n,
             buf |-> r.out \o [i \in 1..(buf_len - Len(r.out)) |-> 0],
             read |-> r.read]

Load ==
  /\ \E offset \in (-1)..(MaxPayloadSize + 1), buf_len \in 0..(MaxPayloadSize + 1) :
       SetLoaded(offset, buf_len, load(btree_payload, offset, buf_len))
  /\ UNCHANGED <<btree_payload, cursor_vars, conn_vars, view_vars, rows_vars>>

PayloadInit ==
  /\ pages = Layout("table", EmptyLeaf, RootPageId)
  /\ current_page = NewCursorPage(pages, RootPageId)
  /\ parent_pages = <<>>
  /\ initialized = FALSE
  /\ panicked = FALSE
  /\ last_op = [op |-> "new", arg |-> <<>>, st |-> "ok", val |-> None]
  /\ scan = FALSE
  /\ yielded = <<>>
  /\ n_inserts = 0
  /\ inserted = {}
  /\ ConnIdle
  /\ btree_payload \in Payloads
  /\ loaded = [op |-> "none", offset |-> 0, buf_len |-> 0, st |-> "ok", n |-> 0, buf |-> <<>>,
             read |-> 0]
  /\ ViewIdle
  /\ RowsIdle

PayloadNext == Load

PayloadSpec == PayloadInit /\ [][PayloadNext]_vars

(* ------------------------- buffer views -------------------------------- *)
\* Payload values of get_table_payload held at one time
MaxPayloads == 2

\* what a cursor call does with the buffer views of the pager, in program
\* order: MemPage::buffer(), the drop of that view, Pager::make_page_mut(),
\* the drop of the writable view
Buffer(pid) == [ev |-> "buffer", pid |-> pid]
DropBuffer(pid) == [ev |-> "drop", pid |-> pid]
MakePageMut(pid) == [ev |-> "make_page_mut", pid |-> pid]
DropBufferMut(pid) == [ev |-> "drop_mut", pid |-> pid]

\* CursorPage::new: the view is dropped once the header has been read
CursorPageNewViews(pid) == <<Buffer(pid), DropBuffer(pid)>>

RECURSIVE TableMoveToViews(_, _, _)
\* the page loop of table_move_to: a view of each page of the path, dropped
\* before move_to_child or at the return
TableMoveToViews(pg, c, key) ==
  IF ~IsTable(c.current_page.page_type) THEN <<>>
  ELSE LET s == TableSearch(pg, c.current_page.mem, key, 0, c.current_page.n_cells, None)
           c1 == SetIdx(c, s.i_min)
           page_id == NextPageId(pg, c1, s.i_min)
       IN IF c1.current_page.is_leaf
          THEN <<Buffer(c.current_page.mem), DropBuffer(c.current_page.mem)>>
          ELSE <<Buffer(c.current_page.mem), DropBuffer(c.current_page.mem)>>
                 \o CursorPageNewViews(page_id)
                 \o TableMoveToViews(pg, move_to_child(pg, c1, page_id), key)

\* (mutant: the read view of the leaf is still held at make_page_mut)
InsertWriteViews_KeepBuffer(pid, r) ==
  IF r.st = "ok"
  THEN <<Buffer(pid), MakePageMut(pid), DropBufferMut(pid), DropBuffer(pid)>>
  ELSE <<Buffer(pid), DropBuffer(pid)>>

\* insert once table_move_to has not found the key, ending as r: the view
\* the header is read through, dropped before make_page_mut; a todo!() or
\* assert_eq!() before the upgrade ends the call with the drop alone
InsertWriteViews(pid, r) ==
  IF r.st = "ok"
  THEN <<Buffer(pid), DropBuffer(pid), MakePageMut(pid), DropBufferMut(pid)>>
  ELSE <<Buffer(pid), DropBuffer(pid)>>

\* insert ending as r, its table_move_to as mv
InsertViews(pg, c, key, mv, r) ==
  TableMoveToViews(pg, move_to_root(c), key)
    \o (IF mv.st # "ok" \/ mv.val = Some(key) THEN <<>>
        ELSE InsertWriteViews(mv.c.current_page.mem, r))

\* Pager::make_page_mut: the writable view is refused while a read view of
\* the page is held
make_page_mut(views, pid) == views[pid] = 0

RECURSIVE RunViews(_, _, _, _)
\* the views after the events evs, from the read views held (views) and
\* the set of pages with a writable view (writers); u is what has been seen
\* of make_page_mut up to here
RunViews(evs, views, writers, u) ==
  IF evs = <<>> \/ ~u.ok THEN [views |-> views, writers |-> writers, u |-> u]
  ELSE LET e == Head(evs)
           overlap == u.overlap \/ \E pid \in writers : views[pid] > 0
       IN IF e.ev = "buffer"
          THEN RunViews(Tail(evs), [views EXCEPT ![e.pid] = @ + 1], writers,
                        [u EXCEPT !.overlap = overlap \/ e.pid \in writers])
          ELSE IF e.ev = "drop"
          THEN RunViews(Tail(evs), [views EXCEPT ![e.pid] = @ - 1], writers, u)
          ELSE IF e.ev = "make_page_mut"
          THEN IF make_page_mut(views, e.pid)
               THEN RunViews(Tail(evs), views, writers \cup {e.pid},
                             [u EXCEPT !.reached = TRUE, !.readers = views[e.pid]])
               ELSE RunViews(Tail(evs), views, writers,
                             [reached |-> TRUE, ok |-> FALSE, readers |-> views[e.pid],
                              overlap |-> overlap])
          ELSE RunViews(Tail(evs), views, writers \ {e.pid}, u)

\* insert with the pager's answer to make_page_mut: run are the views of
\* the call that ends as r when the upgrade succeeds
InsertWithViews(pg, r, run) ==
  IF run.u.ok THEN r ELSE [pg |-> pg, c |-> r.c, st |-> "err", val |-> None]

\* the variables after an insert whose views ran as run
SetViewInserted(key, payload, r, run) ==
  /\ SetInserted(key, payload, InsertWithViews(pages, r, run))
  /\ read_views' = read_views
  /\ last_upgrade' = run.u

NoPayload == \A pid \in DOMAIN read_views : read_views[pid] = 0

\* insert() takes &mut self: no Payload of the cursor is alive
ViewInsert ==
  /\ ~panicked
  /\ NoPayload
  /\ n_inserts < MaxInserts
  /\ \E key \in TableKeys, payload \in InsertPayloads :
       SetViewInserted(key, payload, insert(pages, Cursor, key, payload),
         RunViews(InsertViews(pages, Cursor, key, table_move_to(pages, Cursor, key),
                              insert(pages, Cursor, key, payload)),
                  read_views, {},
                  [reached |-> FALSE, ok |-> TRUE, readers |-> 0, overlap |-> FALSE]))
  /\ UNCHANGED <<scan, yielded, conn_vars, payload_vars, rows_vars>>

\* get_table_payload returns a Payload: it holds a read view of the
\* current page until it is dropped
GetTablePayload ==
  /\ ~panicked
  /\ read_views[current_page.mem] < MaxPayloads
  /\ get_table_payload(pages, Cursor).st = "ok"
  /\ get_table_payload(pages, Cursor).val # None
  /\ read_views' = [read_views EXCEPT ![current_page.mem] = @ + 1]
  /\ last_op' = [op |-> "get_table_payload", arg |-> <<>>, st |-> "ok", val |-> None]
  /\ UNCHANGED <<pages, current_page, parent_pages, initialized, panicked, scan, yielded,
                 n_inserts, inserted, last_upgrade, conn_vars, payload_vars, rows_vars>>

DropPayload ==
  /\ \E pid \in DOMAIN read_views :
       /\ read_views[pid] > 0
       /\ read_views' = [read_views EXCEPT ![pid] = @ - 1]
  /\ last_op' = [op |-> "drop_payload", arg |-> <<>>, st |-> "ok", val |-> None]
  /\ UNCHANGED <<pages, current_page, parent_pages, initialized, panicked, scan, yielded,
                 n_inserts, inserted, last_upgrade, conn_vars, payload_vars, rows_vars>>

\* table_move_to() and move_next() take &mut self
ViewTableMoveTo == NoPayload /\ TableMoveTo

ViewMoveNext == NoPayload /\ MoveNext

ViewInit ==
  /\ \E tree \in WellFormedTableTrees : pages = Layout("table", tree, RootPageId)
  /\ current_page = NewCursorPage(pages, RootPageId)
  /\ parent_pages = <<>>
  /\ initialized = FALSE
  /\ panicked = FALSE
  /\ last_op = [op |-> "new", arg |-> <<>>, st |-> "ok", val |-> None]
  /\ scan = FALSE
  /\ yielded = <<>>
  /\ n_inserts = 0
  /\ inserted = {}
  /\ ConnIdle
  /\ PayloadIdle
  /\ ViewIdle
  /\ RowsIdle

ViewNext ==
  \/ ViewInsert
  \/ GetTablePayload
  \/ DropPayload
  \/ ViewTableMoveTo
  \/ ViewMoveNext

ViewSpec == ViewInit /\ [][ViewNext]_vars

(* ------------------- what a tree holds (for the properties) ------------- *)
RECURSIVE InOrder(_, _)
RECURSIVE InOrderCells(_, _, _)
\* the rows of the subtree at page pid in tree order, each with the page it
\* is stored on: the leaf cells of a table tree (row = <<rowid, payload>>),
\* every cell of an index tree (row = the record)
InOrder(pg, pid) ==
  IF IsLeafType(pg[pid].page_type)
  THEN [i \in 1..pg[pid].n_cells |->
          [mem |-> pid,
           row |-> IF IsTable(pg[pid].page_type)
                   THEN <<pg[pid].cells[i].key, pg[pid].cells[i].payload>>
                   ELSE pg[pid].cells[i].payload]]
  ELSE InOrderCells(pg, pid, 1) \o InOrder(pg, pg[pid].right_page_id)
InOrderCells(pg, pid, i) ==
  IF i > pg[pid].n_cells THEN <<>>
  ELSE InOrder(pg, pg[pid].cells[i].left)
         \o (IF IsIndex(pg[pid].page_type)
             THEN <<[mem |-> pid, row |-> pg[pid].cells[i].payload]>>
             ELSE <<>>)
         \o InOrderCells(pg, pid, i + 1)

Stored == InOrder(pages, RootPageId)

RECURSIVE TreeDepth(_, _)
TreeDepth(pg, pid) ==
  IF IsLeafType(pg[pid].page_type) THEN 1 ELSE 1 + TreeDepth(pg, pg[pid].right_page_id)

Depth == TreeDepth(pages, RootPageId)

\* the rowids of a sequence of table rows
RowIds(rows) == [i \in 1..Len(rows) |-> rows[i].row[1]]

StrictlyAscending(ks) == \A i \in 1..(Len(ks) - 1) : ks[i] < ks[i + 1]

\* the records of a sequence of index rows are in strictly ascending order
RecordsAscending(rows) ==
  \A i \in 1..(Len(rows) - 1) : compare_record(rows[i].row, rows[i + 1].row) = "Less"

IsPrefix(s, t) == Len(s) <= Len(t) /\ s = SubSeq(t, 1, Len(s))

\* what the read returns once the rows before position n have been yielded
NextRow(rows, n) == IF n < Len(rows) THEN Some(rows[n + 1].row) ELSE None

(* ------------------------------ C1 ------------------------------------- *)
\* C1: in a forward traversal of a table tree (move_to_first, then move_next
\* with a read before each), the rows yielded so far are the first rows of
\* the leaf pages in tree order, each on a leaf page and each once, the rowids
\* are strictly ascending, the read returns the next row, get_table_key
\* agrees with it, and after the last row the read returns None.
C1_TableTraversal ==
  (scan /\ TreeIsTable) =>
    /\ ~panicked
    /\ IsPrefix(yielded, Stored)
    /\ \A i \in 1..Len(yielded) : pages[yielded[i].mem].page_type = "TableLeaf"
    /\ StrictlyAscending(RowIds(Stored))
    /\ Read.st = "ok"
    /\ Read.val = NextRow(Stored, Len(yielded))
    /\ get_table_key(pages, Cursor).st = "ok"
    /\ get_table_key(pages, Cursor).val =
         (IF Read.val = None THEN None ELSE Some(Read.val[1][1]))

\* a traversal of a three-level table tree has yielded every row
C1_Witness ==
  /\ scan /\ TreeIsTable
  /\ Depth = 3
  /\ Len(yielded) = Len(Stored)
  /\ Len(yielded) >= 4
  /\ Read.val = None

(* ------------------------------ C2 ------------------------------------- *)
\* the rows of the tree whose rowid is >= key, in tree order
RowsFrom(rows, key) == SelectSeq(rows, LAMBDA e : e.row[1] >= key)

\* C2: on a table tree table_move_to(k) returns Some(k') with k' the smallest
\* rowid of the whole tree that is >= k, and None exactly when k is greater
\* than every rowid of the tree.
C2_TableMoveToSmallestGE ==
  (TreeIsTable /\ last_op.op = "table_move_to") =>
    /\ last_op.st = "ok"
    /\ last_op.val =
         (IF RowsFrom(Stored, last_op.arg[1]) = <<>> THEN None
          ELSE Some(RowsFrom(Stored, last_op.arg[1])[1].row[1]))

(* ------------------------------ C8 ------------------------------------- *)
\* C8: directly after table_move_to(k) returned r, get_table_key returns r,
\* and get_table_payload returns the row of the tree whose rowid is the one
\* in r (None when r is None).
C8_ReadsAgreeWithTableMoveTo ==
  (TreeIsTable /\ last_op.op = "table_move_to" /\ last_op.st = "ok") =>
    /\ get_table_key(pages, Cursor).st = "ok"
    /\ get_table_key(pages, Cursor).val = last_op.val
    /\ Read.st = "ok"
    /\ (Read.val = None) <=> (last_op.val = None)
    /\ Read.val # None =>
         /\ Read.val[1][1] = last_op.val[1]
         /\ \E j \in 1..Len(Stored) : Stored[j].row = Read.val[1]

\* table_move_to of a rowid that is absent landed on a later row of a
\* three-level tree
C8_Witness ==
  /\ TreeIsTable /\ last_op.op = "table_move_to" /\ last_op.st = "ok"
  /\ Depth = 3
  /\ last_op.val # None
  /\ last_op.val[1] > last_op.arg[1]
  /\ Read.val # None

(* ------------------------------ C3 ------------------------------------- *)
\* the rows of an index tree whose first Len(keys) columns equal keys
RowsEqual(rows, keys) == SelectSeq(rows, LAMBDA e : compare_record(keys, e.row) = "Equal")
\* the rows of an index tree that are greater than keys
RowsGreater(rows, keys) == SelectSeq(rows, LAMBDA e : compare_record(keys, e.row) = "Less")

\* C3: after index_move_to(K) on an index tree get_index_payload returns a
\* record whose first |K| columns equal K when the tree holds one; when it
\* holds none, the smallest record greater than K, or None (the cursor is
\* completed) when no record is greater.
C3_IndexMoveTo ==
  (~TreeIsTable /\ last_op.op = "index_move_to") =>
    /\ last_op.st = "ok"
    /\ Read.st = "ok"
    /\ IF RowsEqual(Stored, last_op.arg) # <<>>
       THEN Read.val # None /\ compare_record(last_op.arg, Read.val[1]) = "Equal"
       ELSE IF RowsGreater(Stored, last_op.arg) # <<>>
       THEN Read.val = Some(RowsGreater(Stored, last_op.arg)[1].row)
       ELSE /\ Read.val = None
            /\ move_next(pages, Cursor) = Ok(Cursor, None)

\* the search ended past the last cell of a leaf and the cursor went back to
\* a cell of an interior page
C3_Witness ==
  /\ ~TreeIsTable /\ last_op.op = "index_move_to" /\ last_op.st = "ok"
  /\ RowsEqual(Stored, last_op.arg) = <<>>
  /\ Read.val # None
  /\ ~current_page.is_leaf
  /\ Depth >= 2

(* ------------------------------ C4 ------------------------------------- *)
\* C4: on a non-empty tree move_to_last puts the cursor on the last row, and
\* one move_next after it completes the cursor: it succeeds and the read
\* returns None.
C4_MoveToLastThenNext ==
  /\ [](last_op.op = "move_to_last" /\ Stored # <<>> =>
          Read.st = "ok" /\ Read.val = Some(Stored[Len(Stored)].row))
  /\ [][(last_op.op = "move_to_last" /\ Stored # <<>> /\ last_op'.op = "move_next") =>
          (last_op'.st = "ok" /\ Read'.st = "ok" /\ Read'.val = None)]_vars

(* ------------------------------ C5 ------------------------------------- *)
\* C5: once a forward traversal has moved past the last row, a further
\* move_next succeeds and changes nothing: the cursor is as before and the
\* read still returns None.
C5_MoveNextPastEnd ==
  [][(scan /\ Read.st = "ok" /\ Read.val = None /\ last_op'.op = "move_next") =>
       /\ last_op'.st = "ok"
       /\ UNCHANGED <<current_page, parent_pages, initialized>>
       /\ Read'.st = "ok" /\ Read'.val = None]_vars

(* ------------------------------ C6 ------------------------------------- *)
\* C6: in a forward traversal of an index tree the records yielded so far are
\* the first cells of the tree in tree order (the cells of a left child, then
\* the interior cell, then the cells to its right), leaf and interior cells
\* alike and each once, in strictly ascending record order, and the read
\* returns the next one (None after the last).
C6_IndexTraversal ==
  (scan /\ ~TreeIsTable) =>
    /\ ~panicked
    /\ IsPrefix(yielded, Stored)
    /\ RecordsAscending(Stored)
    /\ Read.st = "ok"
    /\ Read.val = NextRow(Stored, Len(yielded))

\* a traversal of a three-level index tree has yielded every cell, interior
\* cells among them
C6_Witness ==
  /\ scan /\ ~TreeIsTable
  /\ Depth = 3
  /\ Len(yielded) = Len(Stored)
  /\ \E i \in 1..Len(yielded) : pages[yielded[i].mem].page_type = "IndexInterior"
  /\ Read.val = None

(* ------------------------------ C7 ------------------------------------- *)
RECURSIVE TraverseFrom(_, _, _)
\* the rows a forward traversal reads from cursor c on, at most fuel of them
TraverseFrom(pg, c, fuel) ==
  LET rd == get_table_payload(pg, c)
      r == move_next(pg, c)
  IN IF fuel = 0 \/ rd.st # "ok" \/ rd.val = None THEN <<>>
     ELSE <<rd.val[1]>> \o (IF r.st = "ok" THEN TraverseFrom(pg, r.c, fuel - 1) ELSE <<>>)

\* the rows move_to_first and repeated move_next read with cursor c
Traverse(pg, c) ==
  TraverseFrom(pg, move_to_first(pg, c).c, Len(InOrder(pg, RootPageId)) + 1)

\* rows, in ascending rowid order, with one more row
WithRow(rows, row) ==
  SelectSeq(rows, LAMBDA x : x[1] < row[1]) \o <<row>>
    \o SelectSeq(rows, LAMBDA x : x[1] > row[1])

\* C7: after insert(k, p) succeeded, table_move_to(k) returns Some(k),
\* get_table_payload returns (k, p), and a full forward traversal returns
\* the rows it returned before the insert, unchanged, and (k, p), in
\* ascending rowid order.
C7_InsertKeepsRows ==
  [][(last_op'.op = "insert" /\ last_op'.st = "ok") =>
       LET key == last_op'.arg[1]
           payload == last_op'.arg[2]
           r == table_move_to(pages', Cursor', key)
       IN /\ r.st = "ok" /\ r.val = Some(key)
          /\ get_table_payload(pages', r.c).val = Some(<<key, payload>>)
          /\ Traverse(pages', Cursor') = WithRow(Traverse(pages, Cursor), <<key, payload>>)
          /\ Len(Traverse(pages, Cursor)) = Len(Stored)]_vars

\* an insert between two rows of a leaf below the root has succeeded
C7_Witness ==
  /\ last_op.op = "insert" /\ last_op.st = "ok"
  /\ Depth >= 2
  /\ current_page.idx_cell > 0
  /\ current_page.idx_cell < current_page.n_cells - 1

(* ------------------------------ C9 ------------------------------------- *)
\* C9: a write transaction is never live together with a read transaction
\* or another write transaction; start_read fails when a write is live,
\* start_write fails when a read or a write is live, and a failed start
\* leaves ref_count as it was.
C9_WriteExcludesAll ==
  /\ n_writes <= 1
  /\ ~(n_writes >= 1 /\ n_reads >= 1)
  /\ (last_conn.op = "start_read" /\ last_conn.writes_before >= 1) => ~last_conn.ok
  /\ (last_conn.op = "start_write"
        /\ (last_conn.writes_before >= 1 \/ last_conn.reads_before >= 1)) => ~last_conn.ok
  /\ (last_conn.op \in {"start_read", "start_write"} /\ ~last_conn.ok) =>
       ref_count = last_conn.ref_before

\* start_write has failed while two reads were live
C9_Witness ==
  /\ last_conn.op = "start_write" /\ ~last_conn.ok
  /\ n_reads = 2 /\ ref_count = 2

(* ------------------------------ C10 ------------------------------------ *)
\* C10: when a write transaction ends, pager.abort is called exactly when
\* pager.commit has not succeeded (early drop, or an error of commit at any
\* step), and then the buffered mutations are gone and nothing was made
\* durable; after a successful commit abort is not called and the buffered
\* mutations are durable.
C10_AbortIffNotCommitted ==
  last_conn.op \in {"commit", "drop_write"} =>
    /\ last_conn.abort_called <=> ~last_conn.commit_ok
    /\ dirty = 0
    /\ durable = (IF last_conn.commit_ok THEN last_conn.durable_before + last_conn.dirty_before
                  ELSE last_conn.durable_before)

\* commit has returned the error of pager.commit() with mutations buffered
C10_Witness ==
  /\ last_conn.op = "commit" /\ ~last_conn.commit_ok
  /\ last_conn.abort_called
  /\ last_conn.dirty_before > 0

(* ------------------------------ C11 ------------------------------------ *)
\* C11: when InsertStatement::execute has started its write transaction and
\* returns an error (at a record or in commit) or panics, the pages of the
\* tree are as they were before the call, whatever rows the call had
\* already inserted, and ref_count is 0.
C11_ExecuteAllOrNothing ==
  [][(last_conn'.op = "execute" /\ ~last_conn'.ok /\ last_conn'.ref_before = 0)
       => (pages' = pages /\ ref_count' = 0)]_vars

\* the second record of a statement was refused as a duplicate after the
\* first had been inserted
C11_Witness ==
  /\ last_conn.op = "execute"
  /\ last_op.st = "UniqueConstraintViolation"
  /\ last_op.val = <<"record", 1>>
  /\ ref_count = 0

(* ------------------------------ C12 ------------------------------------ *)
\* C12: while no positioning operation has succeeded, move_next,
\* get_table_payload, get_table_key and get_index_payload each return an
\* error and leave the cursor as it is; the cursor is then still as
\* BtreeCursor::new made it, and every positioning operation of the tree's
\* kind succeeds on it.
C12_UninitializedFails ==
  (~initialized /\ ~panicked) =>
    /\ move_next(pages, Cursor) = Err(Cursor)
    /\ get_table_payload(pages, Cursor) = Err(Cursor)
    /\ get_table_key(pages, Cursor) = Err(Cursor)
    /\ get_index_payload(pages, Cursor) = Err(Cursor)
    /\ Cursor = NewCursor(pages)
    /\ move_to_first(pages, Cursor).st = "ok"
    /\ move_to_last(pages, Cursor).st = "ok"
    /\ TreeIsTable => \A key \in TableKeys : table_move_to(pages, Cursor, key).st = "ok"
    /\ ~TreeIsTable => \A keys \in SearchKeys : index_move_to(pages, Cursor, keys).st = "ok"

\* move_next has failed on a cursor that was never positioned, on a table
\* with rows
C12_Witness ==
  /\ ~initialized
  /\ last_op.op = "move_next" /\ last_op.st = "err"
  /\ TreeIsTable /\ pages[RootPageId].n_cells > 0

(* ------------------------------ C13 ------------------------------------ *)
\* C13: at every cursor position, the operations of the other tree kind
\* return an error: get_index_payload and index_move_to on a table tree;
\* get_table_payload, get_table_key, table_move_to and insert on an index
\* tree.
C13_WrongKindFails ==
  ~panicked =>
    /\ TreeIsTable =>
         /\ get_index_payload(pages, Cursor).st = "err"
         /\ \A keys \in { <<0>>, <<1, 1>> } : index_move_to(pages, Cursor, keys).st = "err"
    /\ ~TreeIsTable =>
         /\ get_table_payload(pages, Cursor).st = "err"
         /\ get_table_key(pages, Cursor).st = "err"
         /\ \A key \in 0..MaxKey :
              /\ table_move_to(pages, Cursor, key).st = "err"
              /\ insert(pages, Cursor, key, <<7>>).st = "err"

\* a traversal of a table tree with rows has moved past the last row
C13_Witness ==
  /\ TreeIsTable /\ initialized /\ ~panicked
  /\ Len(Stored) > 0
  /\ last_op.op = "move_next" /\ last_op.st = "ok"
  /\ get_table_payload(pages, Cursor) = Ok(Cursor, None)

(* ------------------------------ C14 ------------------------------------ *)
\* C14: a cursor call that fails on its precondition (move_next before any
\* positioning; table_move_to or insert on an index tree; index_move_to on
\* a table tree) leaves current_page, idx_cell, parent_pages and
\* initialized as they were before the call.
C14_FailedCallKeepsCursor ==
  [][((last_op'.st = "err")
        /\ \/ last_op'.op = "move_next" /\ ~initialized
           \/ last_op'.op \in {"table_move_to", "insert"} /\ ~TreeIsTable
           \/ last_op'.op = "index_move_to" /\ TreeIsTable)
       => Cursor' = Cursor]_vars

(* --------------------------- C15 .. C19 -------------------------------- *)
\* the rowid k is the rowid of a row of the tree
HasRow(k) == \E j \in 1..Len(Stored) : Stored[j].row[1] = k

\* the size of the cell insert(key, payload) writes
InsertCellSize(key, payload) ==
  VarintLen(Len(payload)) + VarintLen(i64_to_u64(key)) + Len(payload)

\* the bytes of page pid between the end of its cell pointer array and its
\* cell content area
FreeSize(pg, pid) ==
  pg[pid].cell_content_area_offset
    - cell_pointer_offset(pid, pg[pid].n_cells, HeaderSize(pg[pid].page_type))

\* the leaf table_move_to(key) ends on
TargetLeaf(key) == table_move_to(pages, Cursor, key).c.current_page.mem

\* C15: insert(k, p) with k the rowid of a row of the tree ends in the
\* not-implemented failure and no page changes: the row keeps its payload,
\* n_cells and cell_content_area_offset of the leaf are as before.
C15_InsertExistingKey ==
  [][(last_op'.op = "insert" /\ HasRow(last_op'.arg[1])) =>
       (last_op'.st = "panic" /\ pages' = pages)]_vars

\* insert was called with a rowid of the page and a payload other than the
\* row's, with room on the page for the cell
C15_Witness ==
  /\ last_op.op = "insert" /\ last_op.st = "panic"
  /\ HasRow(last_op.arg[1])
  /\ <<last_op.arg[1], last_op.arg[2]>> \notin inserted
  /\ FreeSize(pages, RootPageId) >= InsertCellSize(last_op.arg[1], last_op.arg[2]) + 2

C17_InsertNoOverflowPayload ==
  [][(last_op'.op = "insert" /\ Len(last_op'.arg[2]) > MaxLocalTableLeaf(PageSize)) =>
       (last_op'.st # "ok" /\ pages' = pages)]_vars

\* C18: a successful insert adds 1 to n_cells of the leaf, lowers its
\* cell_content_area_offset by the cell size, changes no other page, keeps
\* the end of the cell pointer array at or below cell_content_area_offset,
\* and keeps the cells of the pointer array in strictly ascending rowid
\* order.
C18_InsertKeepsLayout ==
  [][(last_op'.op = "insert" /\ last_op'.st = "ok") =>
       LET leaf == current_page'.mem
           old == pages[leaf]
           new == pages'[leaf]
       IN /\ new.n_cells = old.n_cells + 1
          /\ current_page'.n_cells = new.n_cells
          /\ Len(new.cells) = new.n_cells
          /\ new.cell_content_area_offset
               = old.cell_content_area_offset
                   - InsertCellSize(last_op'.arg[1], last_op'.arg[2])
          /\ \A pid \in DOMAIN pages : pid # leaf => pages'[pid] = pages[pid]
          /\ cell_pointer_offset(leaf, new.n_cells, HeaderSize(new.page_type))
               <= new.cell_content_area_offset
          /\ StrictlyAscending([i \in 1..new.n_cells |-> new.cells[i].key])]_vars

\* an insert between two cells has left the page without room for another
\* cell
C18_Witness ==
  /\ last_op.op = "insert" /\ last_op.st = "ok"
  /\ current_page.idx_cell > 0
  /\ current_page.idx_cell < current_page.n_cells - 1
  /\ FreeSize(pages, RootPageId) < InsertCellSize(0, <<7>>) + 2

RECURSIVE SortRows(_)
\* the <<rowid, payload>> pairs of S by ascending rowid
SortRows(S) ==
  IF S = {} THEN <<>>
  ELSE LET m == CHOOSE r \in S : \A q \in S : r[1] <= q[1]
       IN <<m>> \o SortRows(S \ {m})

\* C19: the rows inserted into an empty table, in whatever order, are read
\* back by a forward traversal in ascending signed rowid order, each with
\* the payload it was inserted with.
C19_InsertOrderIndependent ==
  ~panicked => Traverse(pages, NewCursor(pages)) = SortRows(inserted)

\* three rows are in the table and the last one inserted has a negative
\* rowid, below the rowids inserted before it
C19_Witness ==
  /\ Cardinality(inserted) = 3
  /\ last_op.op = "insert" /\ last_op.st = "ok"
  /\ last_op.arg[1] < 0
  /\ \A r \in inserted : r[1] >= last_op.arg[1]
  /\ \E r \in inserted : r[1] > 0

(* ------------------------------ C20 ------------------------------------ *)
\* C20: for any payload, load(0, buf) with buf.len() >= size() succeeds,
\* returns size(), and the first buf().len() bytes of buf are buf().
C20_LoadWhole ==
  (loaded.op = "load" /\ loaded.offset = 0 /\ loaded.buf_len >= size(btree_payload)) =>
    /\ loaded.st = "ok"
    /\ loaded.n = size(btree_payload)
    /\ SubSeq(loaded.buf, 1, Len(buf(btree_payload))) = buf(btree_payload)

\* C20 amended: for any payload with size() > 0, load(0, buf) with
\* buf.len() >= size() succeeds, returns size(), the first buf().len()
\* bytes of buf are buf(), and the first size() bytes are the whole payload.
C20_LoadWholeNonEmpty ==
  (loaded.op = "load" /\ loaded.offset = 0 /\ loaded.buf_len >= size(btree_payload)
     /\ size(btree_payload) > 0) =>
    /\ loaded.st = "ok"
    /\ loaded.n = size(btree_payload)
    /\ SubSeq(loaded.buf, 1, Len(buf(btree_payload))) = buf(btree_payload)
    /\ SubSeq(loaded.buf, 1, size(btree_payload)) = [i \in 1..size(btree_payload) |-> i]

\* a payload with two overflow pages has been loaded into a longer buf
C20_Witness ==
  /\ loaded.op = "load" /\ loaded.offset = 0 /\ loaded.st = "ok"
  /\ Len(btree_payload.overflow) >= 2
  /\ loaded.buf_len > size(btree_payload)

(* --------------------------- C21, C22 ---------------------------------- *)
RECURSIVE Flatten(_)
Flatten(seqs) == IF seqs = <<>> THEN <<>> ELSE Head(seqs) \o Flatten(Tail(seqs))

\* the logical payload: the local bytes, then the overflow pages' bytes in
\* chain order
Logical(p) == p.local \o Flatten(p.overflow)

\* C21: for any payload with a well-formed overflow chain and any offset o
\* with 0 <= o < size(), load(o, dest) succeeds and returns
\* n = min(|dest|, size() - o), dest[0..n) are the bytes o..o+n of the
\* logical payload and the rest of dest is untouched; fewer than size() - o
\* bytes are returned only when dest is full.
C21_LoadFromOffset ==
  (loaded.op = "load" /\ loaded.offset >= 0 /\ loaded.offset < size(btree_payload)) =>
    /\ Len(Logical(btree_payload)) = size(btree_payload)
    /\ loaded.st = "ok"
    /\ loaded.n = Min(loaded.buf_len, size(btree_payload) - loaded.offset)
    /\ SubSeq(loaded.buf, 1, loaded.n)
         = SubSeq(Logical(btree_payload), loaded.offset + 1, loaded.offset + loaded.n)
    /\ \A i \in (loaded.n + 1)..loaded.buf_len : loaded.buf[i] = 0
    /\ loaded.n < size(btree_payload) - loaded.offset => loaded.n = loaded.buf_len

\* a load from inside the first overflow page has gone on into the second
\* and filled dest before the payload ended
C21_Witness ==
  /\ loaded.op = "load" /\ loaded.st = "ok"
  /\ Len(btree_payload.overflow) >= 2
  /\ loaded.offset = Len(btree_payload.local) + 1
  /\ loaded.n = 2
  /\ loaded.n < size(btree_payload) - loaded.offset

\* C22: load(offset, dest) returns an error and copies nothing into dest
\* whenever offset < 0 or offset >= size().
C22_LoadBadOffset ==
  (loaded.op = "load" /\ (loaded.offset < 0 \/ loaded.offset >= size(btree_payload))) =>
    /\ loaded.st = "err"
    /\ loaded.buf = [i \in 1..loaded.buf_len |-> 0]

\* load was called with offset = size() on a payload with overflow pages
\* and a dest with room
C22_Witness ==
  /\ loaded.op = "load" /\ loaded.st = "err"
  /\ loaded.offset = size(btree_payload)
  /\ Len(btree_payload.overflow) >= 2
  /\ loaded.buf_len > 0

(* ------------------------------ C23 ------------------------------------ *)
\* the tree is empty: its root page is a leaf without cells
EmptyTree == IsLeafType(pages[RootPageId].page_type) /\ pages[RootPageId].n_cells = 0

\* what the positioning operations of the tree's kind return from the
\* cursor as it is
Positionings ==
  { move_to_first(pages, Cursor), move_to_last(pages, Cursor) }
    \cup (IF TreeIsTable
          THEN { table_move_to(pages, Cursor, key) : key \in TableKeys }
          ELSE { index_move_to(pages, Cursor, keys) : keys \in SearchKeys })

\* the reads of the tree's kind return None at cursor c
ReadsNone(c) ==
  /\ ReadAt(pages, c) = Ok(c, None)
  /\ TreeIsTable => get_table_key(pages, c) = Ok(c, None)

\* a cursor on an empty table tree or an empty index tree
EmptyInit ==
  /\ \E kind \in {"table", "index"} : pages = Layout(kind, EmptyLeaf, RootPageId)
  /\ current_page = NewCursorPage(pages, RootPageId)
  /\ parent_pages = <<>>
  /\ initialized = FALSE
  /\ panicked = FALSE
  /\ last_op = [op |-> "new", arg |-> <<>>, st |-> "ok", val |-> None]
  /\ scan = FALSE
  /\ yielded = <<>>
  /\ n_inserts = 0
  /\ inserted = {}
  /\ ConnIdle
  /\ PayloadIdle
  /\ ViewIdle
  /\ RowsIdle

EmptySpec == EmptyInit /\ [][Next]_vars

\* C23: on an empty table tree or empty index tree each of move_to_first,
\* move_to_last and table_move_to(k) / index_move_to(K) succeeds and
\* returns None, the matching reads then return None, and move_next after
\* any of them, and again after that, succeeds and keeps the reads
\* returning None.
C23_EmptyTree ==
  EmptyTree =>
    /\ ~panicked
    /\ \A r \in Positionings :
         /\ r.st = "ok" /\ r.val = None
         /\ ReadsNone(r.c)
         /\ move_next(pages, r.c).st = "ok"
         /\ ReadsNone(move_next(pages, r.c).c)
         /\ move_next(pages, move_next(pages, r.c).c).st = "ok"
         /\ ReadsNone(move_next(pages, move_next(pages, r.c).c).c)
    /\ (initialized /\ last_op.op = "move_next") => (last_op.st = "ok" /\ ReadsNone(Cursor))

\* move_next has succeeded on an empty index tree after index_move_to had
\* left idx_cell at n_cells + 1
C23_Witness ==
  /\ EmptyTree /\ ~TreeIsTable
  /\ last_op.op = "move_next" /\ last_op.st = "ok"
  /\ current_page.idx_cell = 1
  /\ Read = Ok(Cursor, None)

(* ------------------------------ C24 ------------------------------------ *)
\* C24: with one cursor on the tree and no Payload alive, when insert calls
\* make_page_mut on the current leaf no read view of that page is held, the
\* upgrade succeeds, and at no point of the call a writable view and a read
\* view of one page are held together.
C24_UpgradeNeverFails ==
  [][(last_op'.op = "insert" /\ last_upgrade'.reached) =>
       /\ last_upgrade'.readers = 0
       /\ last_upgrade'.ok
       /\ ~last_upgrade'.overlap
       /\ last_op'.st # "err"
       /\ read_views' = read_views]_vars

\* an insert into a leaf below the root has upgraded that leaf to a writable
\* view
C24_Witness ==
  /\ last_op.op = "insert" /\ last_op.st = "ok"
  /\ last_upgrade.reached /\ last_upgrade.ok
  /\ Depth >= 2
  /\ parent_pages # <<>>

(* ------------------------------ C25 ------------------------------------ *)
\* the rowid table_move_to returned at the start of the traversal
SeekKey == IF yielded = <<>> THEN last_op.val[1] ELSE yielded[1].row[1]

\* C25: in a table tree of any depth, after table_move_to(k) returned
\* Some(k'), the reads before each move_next yield the row k' and then
\* exactly the rows with a rowid greater than k', each once and in ascending
\* order, no move_next of the traversal fails, and after the last row the
\* read returns None.
C25_MoveNextAfterTableMoveTo ==
  scan =>
    /\ ~panicked
    /\ RowsFrom(Stored, SeekKey) # <<>>
    /\ RowsFrom(Stored, SeekKey)[1].row[1] = SeekKey
    /\ StrictlyAscending(RowIds(RowsFrom(Stored, SeekKey)))
    /\ IsPrefix(yielded, RowsFrom(Stored, SeekKey))
    /\ Read.st = "ok"
    /\ Read.val = NextRow(RowsFrom(Stored, SeekKey), Len(yielded))

\* a traversal of a three-level tree that table_move_to started at a rowid
\* after the first leaf has yielded rows of two leaves and is completed
C25_Witness ==
  /\ scan /\ Depth = 3
  /\ Len(yielded) >= 2
  /\ yielded[1].row[1] > Stored[2].row[1]
  /\ yielded[1].mem # yielded[Len(yielded)].mem
  /\ Len(yielded) = Len(RowsFrom(Stored, SeekKey))
  /\ Read.val = None

(* ------------------------------ C26 ------------------------------------ *)
\* a cell of page pid compares Equal to keys
HasEqualCell(pg, pid, keys) ==
  \E i \in 1..pg[pid].n_cells : compare_record(keys, pg[pid].cells[i].payload) = "Equal"

\* the number of cells of page pid that are less than keys
CellsBelow(pg, pid, keys) ==
  Cardinality({ i \in 1..pg[pid].n_cells :
                  compare_record(keys, pg[pid].cells[i].payload) = "Greater" })

RECURSIVE SearchPath(_, _, _)
\* the pages of the search for keys from page pid down: it ends at the
\* first page with an equal cell, else at a leaf
SearchPath(pg, pid, keys) ==
  IF IsLeafType(pg[pid].page_type) \/ HasEqualCell(pg, pid, keys) THEN <<pid>>
  ELSE <<pid>> \o SearchPath(pg,
                   IF CellsBelow(pg, pid, keys) = pg[pid].n_cells
                   THEN pg[pid].right_page_id
                   ELSE pg[pid].cells[CellsBelow(pg, pid, keys) + 1].left,
                   keys)

\* the page ids of the cursor's path, root first
CursorPath == [i \in 1..Len(parent_pages) |-> parent_pages[i].mem] \o <<current_page.mem>>

\* the record after the cell the cursor is on, in the order of the tree
\* (None after the last)
RecordAfterCursor ==
  LET j == CHOOSE j \in 1..Len(Stored) :
             /\ Stored[j].mem = current_page.mem
             /\ Stored[j].row = CellAt(pages, current_page.mem, current_page.idx_cell).payload
  IN NextRow(Stored, j)

\* C26: index_move_to(K) stops at the first page of the search path that
\* holds a cell comparing Equal to K, on such a cell, with the parent stack
\* the path to that page; get_index_payload returns that cell; when the
\* page is an interior page, a following move_next succeeds and the read
\* then returns the next record of the tree in order.
C26_IndexMoveToStopsAtEqual ==
  (~TreeIsTable /\ last_op.op = "index_move_to"
     /\ HasEqualCell(pages, SearchPath(pages, RootPageId, last_op.arg)
                              [Len(SearchPath(pages, RootPageId, last_op.arg))],
                     last_op.arg)) =>
    /\ last_op.st = "ok"
    /\ CursorPath = SearchPath(pages, RootPageId, last_op.arg)
    /\ current_page.idx_cell < current_page.n_cells
    /\ compare_record(last_op.arg,
                      CellAt(pages, current_page.mem, current_page.idx_cell).payload) = "Equal"
    /\ Read = Ok(Cursor, Some(CellAt(pages, current_page.mem, current_page.idx_cell).payload))
    /\ ~current_page.is_leaf =>
         /\ move_next(pages, Cursor).st = "ok"
         /\ ReadAt(pages, move_next(pages, Cursor).c).st = "ok"
         /\ ReadAt(pages, move_next(pages, Cursor).c).val = RecordAfterCursor

\* index_move_to of one column value rests on a cell of an interior page
\* below the root while the leaf to the left of the cell holds a record
\* with that value too
C26_Witness ==
  /\ ~TreeIsTable /\ last_op.op = "index_move_to" /\ last_op.st = "ok"
  /\ Len(last_op.arg) = 1
  /\ ~current_page.is_leaf
  /\ parent_pages # <<>>
  /\ compare_record(last_op.arg,
                    CellAt(pages, current_page.mem, current_page.idx_cell).payload) = "Equal"
  /\ \E j \in 1..Len(Stored) :
       /\ IsLeafType(pages[Stored[j].mem].page_type)
       /\ compare_record(last_op.arg, Stored[j].row) = "Equal"

(* ------------------------------ C27 ------------------------------------ *)
\* the search for keys from the root
RootSearchPath(keys) == SearchPath(pages, RootPageId, keys)

\* the search for keys meets no equal cell and ends past the last cell of
\* a leaf
EndsPastLeaf(keys) ==
  LET leaf == RootSearchPath(keys)[Len(RootSearchPath(keys))]
  IN /\ ~HasEqualCell(pages, leaf, keys)
     /\ CellsBelow(pages, leaf, keys) = pages[leaf].n_cells

\* the positions of the pages above the leaf that the search left at a cell
\* (not at the right child)
AncestorsAtCell(keys) ==
  { i \in 1..(Len(RootSearchPath(keys)) - 1) :
      CellsBelow(pages, RootSearchPath(keys)[i], keys) < pages[RootSearchPath(keys)[i]].n_cells }

MaxOf(S) == CHOOSE x \in S : \A y \in S : y <= x

C28_IdxCellBounded ==
  ~panicked =>
    /\ current_page.idx_cell <= current_page.n_cells + 1
    /\ current_page.idx_cell = current_page.n_cells + 1 =>
         (parent_pages = <<>> /\ current_page.mem = RootPageId)

(* ------------------------------ C29 ------------------------------------ *)
\* the pages an interior page points to
ChildrenOf(pg, pid) ==
  IF IsLeafType(pg[pid].page_type) THEN {}
  ELSE { pg[pid].cells[i].left : i \in 1..pg[pid].n_cells } \cup { pg[pid].right_page_id }

\* path is a path of pages from the root down, each the parent of the next
IsRootPath(pg, path) ==
  /\ path # <<>>
  /\ path[1] = RootPageId
  /\ \A i \in 1..(Len(path) - 1) :
       /\ ~IsLeafType(pg[path[i]].page_type)
       /\ path[i + 1] \in ChildrenOf(pg, path[i])

\* C29: after every operation parent_pages is the root-to-parent path of
\* current_page: its bottom element is the root page, every element is an
\* interior page and the parent of the next, and the current page is a
\* child of the top element (the root itself when the stack is empty);
\* every positioning operation starts from the root with an empty stack.
C29_ParentStackIsPath ==
  ~panicked =>
    /\ IsRootPath(pages, CursorPath)
    /\ move_to_root(Cursor).parent_pages = <<>>
    /\ move_to_root(Cursor).current_page.mem = RootPageId

\* move_next has gone from one leaf of a three-level tree to the next
\* under another interior page
C29_Witness ==
  /\ Depth = 3 /\ ~panicked
  /\ last_op.op = "move_next" /\ last_op.st = "ok"
  /\ Len(parent_pages) = 2
  /\ parent_pages[1].idx_cell > 0
  /\ current_page.idx_cell = 0

(* ------------------------------ C30 ------------------------------------ *)
\* C30: no assert!() of move_next fails in a state reached through cursor
\* operations (none of them has panicked before; move_next is called after
\* any of them).
C30_MoveNextAssertsHold ==
  last_op.op = "move_next" => last_op.st # "panic"

(* ------------------------------ C31 ------------------------------------ *)
\* C31: on a table tree, in every state reached by cursor operations (calls
\* that returned an error included), initialized and idx_cell < n_cells
\* together imply that the current page is a leaf, so that assert!(is_leaf)
\* of get_table_key and of get_table_payload does not fail.
C31_TableReadsOnLeaf ==
  (TreeIsTable /\ ~panicked) =>
    /\ (initialized /\ current_page.idx_cell < current_page.n_cells) => current_page.is_leaf
    /\ get_table_key(pages, Cursor).st # "panic"
    /\ get_table_payload(pages, Cursor).st # "panic"

(* ------------------------------ C32 ------------------------------------ *)
\* what a read of the cell at idx_cell returns, cell_value being what the
\* read takes from the cell
ReadOfCell(cell_value) ==
  Ok(Cursor, IF current_page.idx_cell >= current_page.n_cells THEN None
             ELSE Some(cell_value))

\* C32: on an initialized cursor of the matching tree kind get_table_key,
\* get_table_payload and get_index_payload return None exactly when
\* idx_cell >= n_cells and otherwise the cell at idx_cell (get_table_key
\* the rowid get_table_payload returns), and leave current_page,
\* parent_pages and initialized as they are.
C32_ReadsReturnCell ==
  (~panicked /\ initialized) =>
    IF TreeIsTable
    THEN /\ get_table_key(pages, Cursor) =
              ReadOfCell(CellAt(pages, current_page.mem, current_page.idx_cell).key)
         /\ get_table_payload(pages, Cursor) =
              ReadOfCell(<<CellAt(pages, current_page.mem, current_page.idx_cell).key,
                           CellAt(pages, current_page.mem, current_page.idx_cell).payload>>)
    ELSE get_index_payload(pages, Cursor) =
           ReadOfCell(CellAt(pages, current_page.mem, current_page.idx_cell).payload)

(* ------------------------------ C33 ------------------------------------ *)
\* C33: ref_count is -1 exactly when one write transaction is live and is
\* otherwise the number of live read transactions, so it is never below
\* -1; once every transaction has been dropped it is 0 again and a
\* start_write then succeeds.
C33_RefCountCountsTransactions ==
  /\ ref_count >= -1
  /\ (ref_count = -1) <=> (n_writes = 1)
  /\ n_writes # 1 => (n_writes = 0 /\ ref_count = n_reads)
  /\ (n_reads = 0 /\ n_writes = 0) => (ref_count = 0 /\ start_write(ref_count).ok)
  /\ (last_conn.op = "start_write" /\ last_conn.reads_before = 0
        /\ last_conn.writes_before = 0) => (last_conn.ok /\ ref_count = -1)

\* start_write has succeeded after an earlier write transaction had
\* committed and been dropped
C33_Witness ==
  /\ last_conn.op = "start_write" /\ last_conn.ok
  /\ durable > 0
  /\ ref_count = -1 /\ n_writes = 1 /\ n_reads = 0

(* ------------------------------ C34 ------------------------------------ *)
\* C34: directly after insert(k, p) succeeded the cursor is on the new
\* cell: get_table_key returns Some(k) and get_table_payload (k, p) from
\* the cursor as insert left it, and after one move_next the read returns
\* the row of the next larger rowid of the tree (None when k is the
\* largest).
C34_InsertLeavesCursorOnCell ==
  (last_op.op = "insert" /\ last_op.st = "ok") =>
    /\ get_table_key(pages, Cursor) = Ok(Cursor, Some(last_op.arg[1]))
    /\ get_table_payload(pages, Cursor) = Ok(Cursor, Some(<<last_op.arg[1], last_op.arg[2]>>))
    /\ move_next(pages, Cursor).st = "ok"
    /\ get_table_payload(pages, move_next(pages, Cursor).c).st = "ok"
    /\ get_table_payload(pages, move_next(pages, Cursor).c).val =
         NextRow(RowsFrom(Stored, last_op.arg[1] + 1), 0)

\* an insert at the tail of a leaf below the root has succeeded, and the
\* next larger rowid is on another leaf
C34_Witness ==
  /\ last_op.op = "insert" /\ last_op.st = "ok"
  /\ Depth >= 2
  /\ current_page.idx_cell = current_page.n_cells - 1
  /\ RowsFrom(Stored, last_op.arg[1] + 1) # <<>>
  /\ RowsFrom(Stored, last_op.arg[1] + 1)[1].mem # current_page.mem

(* ------------------------------ C35 ------------------------------------ *)
\* seq without its element at position i
RemoveAt(seq, i) == SubSeq(seq, 1, i - 1) \o SubSeq(seq, i + 1, Len(seq))

\* C35: a successful insert(k, p) changes exactly one page, the leaf
\* table_move_to(k) ends on: every other page (interior pages, other
\* leaves) is as before and no page is added; on the leaf only n_cells and
\* cell_content_area_offset of the header change, the existing cells are
\* as before (the pointer array holds them in their order around the new
\* cell), and the new cell's bytes lie below the old cell content area and
\* above the end of the pointer array.
C35_InsertWritesOneLeaf ==
  [][(last_op'.op = "insert" /\ last_op'.st = "ok") =>
       LET leaf == TargetLeaf(last_op'.arg[1])
           old == pages[leaf]
           new == pages'[leaf]
       IN /\ current_page'.mem = leaf
          /\ old.page_type = "TableLeaf"
          /\ DOMAIN pages' = DOMAIN pages
          /\ pages'[leaf] # pages[leaf]
          /\ \A pid \in DOMAIN pages : pid # leaf => pages'[pid] = pages[pid]
          /\ [new EXCEPT !.n_cells = old.n_cells,
                         !.cell_content_area_offset = old.cell_content_area_offset,
                         !.cells = old.cells] = old
          /\ RemoveAt(new.cells, current_page'.idx_cell + 1) = old.cells
          /\ new.cell_content_area_offset + InsertCellSize(last_op'.arg[1], last_op'.arg[2])
               <= old.cell_content_area_offset
          /\ cell_pointer_offset(leaf, new.n_cells, HeaderSize(new.page_type))
               <= new.cell_content_area_offset]_vars

\* an insert between two cells of a leaf of a three-level tree has
\* succeeded
C35_Witness ==
  /\ last_op.op = "insert" /\ last_op.st = "ok"
  /\ Depth = 3
  /\ Len(parent_pages) = 2
  /\ current_page.idx_cell < current_page.n_cells - 1

(* ------------------------------ C36 ------------------------------------ *)
\* pages of an overflow chain that is not the one payload_size asks for
MaxChainPages == 3

\* a payload of n_bytes bytes, local_len of them local, whose overflow chain
\* has n full pages, the next-page id of the last one being 0 (loop_to = 0)
\* or the id of the page at position loop_to of the chain (a cycle)
ChainPayload(n_bytes, local_len, n, loop_to) ==
  [payload_size |-> n_bytes,
   local |-> [i \in 1..local_len |-> i],
   overflow |-> [j \in 1..n |-> [b \in 1..OverflowPageBytes |-> 10 * j + b]],
   loop_to |-> loop_to]

\* chains that end before payload_size bytes, chains longer than
\* payload_size asks for, and cyclic chains
ChainPayloads ==
  { ChainPayload(x[1], x[2], x[3], x[4]) :
      x \in { y \in (2..MaxPayloadSize) \X (1..MaxPayloadSize) \X (1..MaxChainPages)
                      \X (0..MaxChainPages) : y[2] < y[1] /\ y[4] <= y[3] } }

ChainInit ==
  /\ pages = Layout("table", EmptyLeaf, RootPageId)
  /\ current_page = NewCursorPage(pages, RootPageId)
  /\ parent_pages = <<>>
  /\ initialized = FALSE
  /\ panicked = FALSE
  /\ last_op = [op |-> "new", arg |-> <<>>, st |-> "ok", val |-> None]
  /\ scan = FALSE
  /\ yielded = <<>>
  /\ n_inserts = 0
  /\ inserted = {}
  /\ ConnIdle
  /\ btree_payload \in ChainPayloads
  /\ loaded = [op |-> "none", offset |-> 0, buf_len |-> 0, st |-> "ok", n |-> 0, buf |-> <<>>,
               read |-> 0]
  /\ ViewIdle
  /\ RowsIdle

ChainSpec == ChainInit /\ [][PayloadNext]_vars

\* the overflow pages a payload of this size has
PagesNeeded(p) ==
  (size(p) - Len(p.local) + OverflowPageBytes - 1) \div OverflowPageBytes

\* the bytes the local part and the pages of the chain hold together
ChainBytes(p) == Len(p.local) + Len(Flatten(p.overflow))

\* the chain ends (next-page id 0) before payload_size bytes are covered
EndsEarly(p) == p.loop_to = 0 /\ ChainBytes(p) < size(p)

\* C36: load returns on every input, also when the overflow chain is
\* cyclic or longer than payload_size asks for: it reads at most
\* ceil((size() - local length) / bytes per overflow page) overflow pages;
\* when the chain ends before payload_size bytes are covered and dest has
\* room left after the bytes there are, it returns an error.
C36_LoadTerminates ==
  loaded.op = "load" =>
    /\ loaded.st \in {"ok", "err"}
    /\ loaded.read <= PagesNeeded(btree_payload)
    /\ (loaded.offset >= 0 /\ loaded.offset < size(btree_payload)
          /\ EndsEarly(btree_payload)
          /\ loaded.buf_len > 0
          /\ loaded.buf_len > ChainBytes(btree_payload) - loaded.offset) =>
         loaded.st = "err"

\* a load has gone round a cyclic chain of one page: it has read the page
\* twice and returned the whole payload
C36_Witness ==
  /\ loaded.op = "load" /\ loaded.st = "ok"
  /\ Len(btree_payload.overflow) = 1 /\ btree_payload.loop_to = 1
  /\ loaded.read = 2
  /\ loaded.n = size(btree_payload)

(* ------------------------------ C37 ------------------------------------ *)
\* the CursorPage values of the cursor: the current page and the stack
Frames == {current_page} \cup { parent_pages[i] : i \in 1..Len(parent_pages) }

\* C37: in every state reached with the one cursor of the tree, the
\* n_cells cached in the current page and in each page of the parent stack
\* is n_cells of the header of that page in the pager, directly after a
\* successful insert and after a return to the root page kept on the stack
\* included.
C37_CachedNCells ==
  \A frame \in Frames : frame.n_cells = pages[frame.mem].n_cells

\* after an insert into a tree of two or three levels the cursor has gone
\* back to the root page of the stack and down to the inserted row
C37_Witness ==
  /\ n_inserts = 1
  /\ Depth >= 2
  /\ last_op.op = "table_move_to" /\ last_op.st = "ok"
  /\ \E row \in inserted : last_op.val = Some(row[1])
  /\ parent_pages # <<>>

(* ------------------------------ C38 ------------------------------------ *)
\* the largest rowid of the table, 0 when it has no row
MaxRowid == IF Stored = <<>> THEN 0 ELSE MaxOf({ Stored[i].row[1] : i \in 1..Len(Stored) })

\* the rowid execute takes for a record without rowid on the table as it is
AutoRid == RecordRowid(pages, NewCursor(pages), InsertRecord("auto", 0))

\* the rowid rid is greater than every rowid of the table and the conflict
\* check passes it
FreshRowid(rid) ==
  /\ rid.st = "ok"
  /\ rid.val = MaxRowid + 1
  /\ \A i \in 1..Len(Stored) : Stored[i].row[1] < rid.val
  /\ table_move_to(pages, rid.c, rid.val).st = "ok"
  /\ table_move_to(pages, rid.c, rid.val).val # Some(rid.val)

\* the rows of the table
Rows(stored) == [i \in 1..Len(stored) |-> stored[i].row]

\* the step is an execute, in a write transaction, of records without rowid
AutoExecute ==
  /\ last_conn'.op = "execute"
  /\ last_conn'.ref_before = 0
  /\ \A i \in 1..Len(last_op'.arg) : last_op'.arg[i] = "auto"

\* C38: for a record without rowid (or with a NULL rowid) execute takes
\* the largest rowid of the table plus 1 (1 on an empty table), on tables
\* of any depth: the rowid is greater than every rowid of the table and the
\* conflict check does not report a unique-constraint violation.
C38_AutoRowid ==
  /\ [](FreshRowid(AutoRid))
  /\ [][AutoExecute => last_op'.st # "UniqueConstraintViolation"]_vars

\* C38 amended: the same while the largest rowid of the table is below
\* MAX_ROWID; on a table that holds MAX_ROWID the record ends in the
\* not-implemented failure and nothing is inserted. A statement of such
\* records that succeeds adds the rows of rowids max + 1, max + 2, ..
C38_AutoRowidBelowMax ==
  /\ [](IF MaxRowid < MAX_ROWID THEN FreshRowid(AutoRid) ELSE AutoRid.st = "panic")
  /\ [][AutoExecute =>
          /\ last_op'.st # "UniqueConstraintViolation"
          /\ last_op'.st = "ok" =>
               Rows(Stored') = Rows(Stored)
                  \o [i \in 1..Len(last_op'.arg) |-> <<MaxRowid + i, <<7>>>>]
          /\ MaxRowid = MAX_ROWID => (last_op'.st = "panic" /\ pages' = pages)]_vars

\* a statement of two records without rowid has been executed on a table
\* of two levels (a table of three levels holds a rowid of MAX_ROWID - 1 or
\* more, which leaves no rowid for the second record)
C38_Witness ==
  /\ last_op.op = "execute" /\ last_op.st = "ok"
  /\ last_op.arg = <<"auto", "auto">>
  /\ Depth = 2

(* ------------------------------ C39 ------------------------------------ *)
\* C39: once next_row of a scan of the whole table (no rowid, no index)
\* has returned None, every later next_row returns None as well, without
\* an error and without a panic, on tables of any depth.
C39_NextRowStaysNone ==
  last_row.after_none => (last_row.st = "ok" /\ last_row.val = None)

====
